---- MODULE Spec2Model ----
(***************************************************************************)
(* mnc (multicast netcat): the reader / writer / statistics pipeline, the  *)
(* shared control state and the supervisor loop of main().                 *)
(*                                                                         *)
(* A packet is identified by its position in the input (1, 2, ...); a      *)
(* batch is a sequence of packets; a channel is a sequence of batches.     *)
(* Every stage thread is a small program counter machine whose steps are   *)
(* the shared-memory operations of its loop (a flag load, a channel        *)
(* operation, a counter update), so that every interleaving of the threads *)
(* is explored.                                                            *)
(***************************************************************************)
EXTENDS Integers, Sequences, FiniteSets, TLC

\* ---------------------------------------------------------------- bounds
MaxSrc == 3       \* most datagrams / lines / records the input ever holds
MaxCount == 2     \* largest --count explored (0 = no limit)
MaxBuf == 2       \* largest --buffer-size explored
MaxBytes == 1     \* largest byte count of one received datagram
LiveSrc == 1      \* input items in the runs checked for liveness
MaxPkts == 2      \* packets of a file in the runs that check the framing
MaxPktLen == 2    \* bytes of a packet in the runs that check the framing
SlabCount == 2       \* slab slots in the byte-level network reader
SlabBytes == 2       \* capacity of one slab slot in bytes
MaxBatches == 2      \* batches the byte-level network reader publishes
MaxWindow == 4       \* packets statistics processes within one report window

\* ------------------------------------------------------ program constants
RECVMMSG_BUFFER_COUNT == 1000   \* reader.rs: slab size, vlen of recvmmsg
BATCH_SIZE == 32                \* writer.rs: sendmmsg batch
GRACE_MS == 1000                \* main.rs: Duration::from_secs(1)
POLL_MS == 100                  \* main.rs: sleep(Duration::from_millis(100))
MAX_PACKET_SIZE == 65536        \* reader.rs: largest binary record
NL == 10                        \* writer.rs: b"\n"

VARIABLES
    args,            \* the parsed command line (immutable after Init)
    source,          \* what the input will ever hold: the byte count of each
                     \* datagram of the socket, one entry per item of a file
    file,            \* the bytes of the input file (<< >> for the socket)
    reads,           \* what the successive reads of the input file return
    ends,            \* the input reports end of file after its last item
    packet_count,    \* SharedState.packet_count
    should_exit,     \* SharedState.should_exit
    dataCh,          \* Reader > Writer channel: queued batches
    statsCh,         \* Reader > Statistics channel: queued batches
    rPc, rPos, rBatch, rRes,          \* reader thread
    rInput,          \* the input run_reader reads: "network", "stdin" or "file"
    wPc, wRes, out,                   \* writer thread; out = packets written / sent
    sPc, sRes, sCount, sState,        \* statistics thread: window count, accumulator
    supPc, all_threads, exiting_timeout,   \* supervisor (main)
    \* history variables (not program state)
    published,       \* packets of every batch the reader passed to the publish step
    dataEnq,         \* packets the data channel accepted
    statsEnq,        \* packets the stats channel accepted
    dataDrops,       \* packets refused by a full data channel
    statsDrops,      \* packets refused by a full stats channel
    wTaken,          \* packets the writer took off the data channel
    wDrained,        \* packets the writer took in its shutdown drain
    sTaken,          \* packets statistics took off the stats channel
    sWindow,         \* packets statistics took since the last report tick
    sQueuedAtExit,   \* stats channel content when statistics observed should_exit
    interrupted,     \* the interrupt handler has run
    graceSeen,       \* <<ms>> since the supervisor first saw should_exit, else << >>
    \* read_from_network at the level of bytes
    slab,            \* `packets`: the reader's preallocated Packets
    slab_counts,     \* `byte_counts` of the last recvmmsg
    slab_msgs,       \* history: the datagrams the last recvmmsg delivered
    slab_batches,    \* every PacketBatch handed to the channels, oldest first
    nPc,             \* "head" | "recv" | "clone" | "done"
    \* one Packet and a caller of its methods
    pkt,             \* the Packet
    pkt_view,        \* <<bytes>> read through Deref since the last change, else << >>
    \* produce_stats with the SDDS or the VITA49 accumulator
    sdds_state,      \* the SddsState of the current report window
    vita_state,      \* the Vita49State of the current report window
    st_count,        \* produce_stats' local packet_count
    st_log,          \* history: the sequence numbers processed in the window
    \* a decoder and its caller
    dec_in,          \* the packet handed to the decoder
    dec_out          \* <<decoder, result>> of the last call, else << >>

cfgVars == <<args, source, file, reads, ends>>
sharedVars == <<packet_count, should_exit>>
readerVars == <<rPc, rPos, rBatch, rRes, rInput>>
writerVars == <<wPc, wRes, out, wTaken, wDrained>>
statVars == <<sPc, sRes, sCount, sState, sTaken, sWindow, sQueuedAtExit>>
supVars == <<supPc, all_threads, exiting_timeout, graceSeen>>
pubVars == <<published, dataEnq, statsEnq, dataDrops, statsDrops>>
slabVars == <<slab, slab_counts, slab_msgs, slab_batches, nPc>>
packetVars == <<pkt, pkt_view>>
gapVars == <<sdds_state, vita_state, st_count, st_log>>
decVars == <<dec_in, dec_out>>
partVars == <<slabVars, packetVars, gapVars, decVars>>
vars == <<cfgVars, sharedVars, dataCh, statsCh, readerVars, writerVars,
          statVars, supVars, pubVars, interrupted, partVars>>

\* ---------------------------------------------------------------- helpers
Min(a, b) == IF a < b THEN a ELSE b

\* <<a, a+1, ..., b>>
Range(a, b) == [i \in 1..(b - a + 1) |-> a + i - 1]

RECURSIVE Flatten(_)
Flatten(batches) ==
    IF batches = << >> THEN << >> ELSE Head(batches) \o Flatten(Tail(batches))

Take(s, n) == SubSeq(s, 1, Min(n, Len(s)))

\* s is an order-preserving subsequence of t (no element duplicated or reordered)
RECURSIVE IsSubseq(_, _)
IsSubseq(s, t) ==
    IF s = << >> THEN TRUE
    ELSE IF t = << >> THEN FALSE
    ELSE IF Head(s) = Head(t) THEN IsSubseq(Tail(s), Tail(t))
    ELSE IsSubseq(s, Tail(t))

SeqsUpTo(S, n) == UNION {[1..k -> S] : k \in 0..n}

\* ------------------------------------------------------------ configuration
\* main.rs: max_count from (verbose, count); verbose is not modelled, so count.
max_count == args.count
buffer_size == args.buffer_size

\* main.rs: the stats channel and thread exist iff !quiet && (stats || verbose)
StatsEnabled == args.stats

\* reader.rs run_reader / read_from_file / read_from_stdin: which read loop runs
ReaderMode ==
    IF args.input = "none" THEN "network"
    ELSE IF args.packet_type = "Text" THEN "text" ELSE "binary"

\* writer.rs run_writer / write_to_file / write_to_stdout / write_to_network
WriterMode ==
    IF args.output # "none"
    THEN (IF args.packet_type = "Text" THEN "text" ELSE "binary")
    ELSE IF args.input # "none"
         THEN (IF args.rate # "none" THEN "rate" ELSE "sendmmsg")
         ELSE "devnull"

ArgSet ==
    { a \in [input : {"none", "some"}, output : {"none", "some"},
             packet_type : {"Text", "Binary"}, rate : {"none", "some"},
             stats : BOOLEAN, count : 0..MaxCount, buffer_size : 1..MaxBuf] :
        \* --rate only matters on the network writer
        /\ a.rate = "some" => (a.output = "none" /\ a.input = "some")
        \* network to devnull: the packet type changes neither stage
        /\ (a.input = "none" /\ a.output = "none") => a.packet_type = "Text" }

\* What the input will ever deliver, as byte counts. A datagram may be empty;
\* a line always has bytes; records are kept non-empty. A socket that delivers
\* fewer than MaxSrc datagrams is a run in which the rest never arrives.
SourceSet(a) ==
    IF a.input = "none" THEN [1..MaxSrc -> 0..MaxBytes]
    ELSE SeqsUpTo({1}, MaxSrc)

\* A socket never reports end of file; a file does; a pipe may stay open.
EndSet(a) == IF a.input = "none" THEN {FALSE} ELSE BOOLEAN

\* ----------------------------------------------------------------- framing
\* u32::to_le_bytes and u32::from_le_bytes
to_le_bytes(n) ==
    <<n % 256, (n \div 256) % 256, (n \div 65536) % 256, (n \div 16777216) % 256>>

from_le_bytes(b) == b[1] + 256 * b[2] + 65536 * b[3] + 16777216 * b[4]

\* str::from_utf8 on the bytes the model uses: a byte below 0x80 is a
\* character, a lone byte from 0x80 up is not valid UTF-8
valid_utf8(bytes) == \A i \in 1..Len(bytes) : bytes[i] < 128

ends_with_nl(packet) == packet # << >> /\ packet[Len(packet)] = NL

\* Mutant of write_text_packet: a newline is written after every packet.
write_text_packet_nl(packet) == Append(packet, NL)

\* write_text_mode, the bytes one packet adds to the output: write_all(packet),
\* then write_all(b"\n") unless the packet ends with one
write_text_packet(packet) ==
    IF ends_with_nl(packet) THEN packet ELSE Append(packet, NL)

\* write_binary_mode, the bytes one packet adds to the output:
\* write_all(&length.to_le_bytes()), then write_all(packet)
write_binary_packet(packet) == to_le_bytes(Len(packet)) \o packet

RECURSIVE write_text_mode(_)
write_text_mode(packets) ==
    IF packets = << >> THEN << >>
    ELSE write_text_packet(Head(packets)) \o write_text_mode(Tail(packets))

RECURSIVE write_binary_mode(_)
write_binary_mode(packets) ==
    IF packets = << >> THEN << >>
    ELSE write_binary_packet(Head(packets)) \o write_binary_mode(Tail(packets))

\* BufRead::read_line on the unread bytes: everything up to and including the
\* first newline, or all that is left; 0 bytes read at end of input; an error
\* when the bytes read are not valid UTF-8
read_line(bytes) ==
    IF bytes = << >> THEN [kind |-> "eof"]
    ELSE LET stops == {i \in 1..Len(bytes) : bytes[i] = NL}
             n == IF stops = {} THEN Len(bytes)
                  ELSE CHOOSE i \in stops : \A j \in stops : i <= j
             line == SubSeq(bytes, 1, n)
         IN  IF valid_utf8(line)
             THEN [kind |-> "packet", packet |-> line,
                   rest |-> SubSeq(bytes, n + 1, Len(bytes))]
             ELSE [kind |-> "err"]

\* Mutant of read_record: the payload is taken from one byte too early.
read_record_skew(bytes) ==
    IF Len(bytes) < 4 THEN [kind |-> "eof"]
    ELSE LET length == from_le_bytes(SubSeq(bytes, 1, 4))
         IN  IF length > MAX_PACKET_SIZE THEN [kind |-> "too_large"]
             ELSE IF Len(bytes) - 4 < length THEN [kind |-> "err"]
             ELSE [kind |-> "packet", packet |-> SubSeq(bytes, 4, 3 + length),
                   rest |-> SubSeq(bytes, 5 + length, Len(bytes))]

\* Mutant of read_record: a length of MAX_PACKET_SIZE is refused too.
read_record_strict(bytes) ==
    IF Len(bytes) < 4 THEN [kind |-> "eof"]
    ELSE LET length == from_le_bytes(SubSeq(bytes, 1, 4))
         IN  IF length >= MAX_PACKET_SIZE THEN [kind |-> "too_large"]
             ELSE IF Len(bytes) - 4 < length THEN [kind |-> "err"]
             ELSE [kind |-> "packet", packet |-> SubSeq(bytes, 5, 4 + length),
                   rest |-> SubSeq(bytes, 5 + length, Len(bytes))]

\* read_binary_mode, one record of the unread bytes: read_exact of the 4 byte
\* length (UnexpectedEof => break), the MAX_PACKET_SIZE check, read_exact of
\* the payload (`?`)
read_record(bytes) ==
    IF Len(bytes) < 4 THEN [kind |-> "eof"]
    ELSE LET length == from_le_bytes(SubSeq(bytes, 1, 4))
         IN  IF length > MAX_PACKET_SIZE THEN [kind |-> "too_large"]
             ELSE IF Len(bytes) - 4 < length THEN [kind |-> "err"]
             ELSE [kind |-> "packet", packet |-> SubSeq(bytes, 5, 4 + length),
                   rest |-> SubSeq(bytes, 5 + length, Len(bytes))]

\* One read of the framing the packet type selects (read_from_file)
read_item(text, bytes) == IF text THEN read_line(bytes) ELSE read_record(bytes)

\* The bytes left unread after n items have been read
RECURSIVE Unread(_, _, _)
Unread(text, bytes, n) ==
    IF n = 0 THEN bytes
    ELSE LET r == read_item(text, bytes)
         IN  IF r.kind = "packet" THEN Unread(text, r.rest, n - 1) ELSE bytes

\* The results of the reads the loop makes on the file, one after the other:
\* the packets, then the read that makes the loop end
RECURSIVE ReadAll(_, _)
ReadAll(text, bytes) ==
    LET r == read_item(text, bytes)
    IN  IF r.kind = "packet"
        THEN <<[kind |-> "packet", packet |-> r.packet]>> \o ReadAll(text, r.rest)
        ELSE <<[kind |-> r.kind, packet |-> << >>]>>

\* The bytes of the i-th item read from the input file
PacketAt(i) == reads[i].packet

Content(ids) == [k \in 1..Len(ids) |-> PacketAt(ids[k])]

\* A file that holds one one-byte item per entry of src
FileOf(a, src) ==
    IF a.input = "none" THEN << >>
    ELSE IF a.packet_type = "Text"
         THEN write_text_mode([i \in 1..Len(src) |-> << >>])
         ELSE write_binary_mode([i \in 1..Len(src) |-> <<0>>])

Threads(a) ==
    IF a.stats THEN <<"reader", "writer", "statistics">> ELSE <<"reader", "writer">>

\* reader.rs run_reader, `match &input`: the input the reader reads
run_reader(input) ==
    IF input = "none" THEN "network"
    ELSE IF input = "=" THEN "stdin"
    ELSE "file"

\* The state in which the threads start: arguments a, an input that holds src,
\* that is the bytes f when it is a file, and that ends or stays open (e); the
\* reader is at pc and reads inp
\* ------------------------------------------------------------------ packet
\* packet.rs: a Packet is a byte buffer `data` and its own `length`
\* Packet::new
Packet_new(data) == [data |-> data, length |-> Len(data)]

\* Packet::with_capacity: vec![0u8; capacity]
with_capacity(capacity) == [data |-> [i \in 1..capacity |-> 0], length |-> capacity]

\* Packet::set_length
set_length(p, length) == [p EXCEPT !.length = length]

\* <[u8]>::get(..len): None when len is past the end of the slice
slice_get(data, len) ==
    IF len <= Len(data) THEN [some |-> TRUE, slice |-> SubSeq(data, 1, len)]
    ELSE [some |-> FALSE]

\* Mutant of deref: the stored length is not clamped to the buffer.
deref_unclamped(p) ==
    LET r == slice_get(p.data, p.length)
    IN  IF r.some THEN r.slice ELSE << >>

\* <Packet as Deref>::deref: length.min(data.len()), then the match on
\* data.get(..len)
deref(p) ==
    LET len == Min(p.length, Len(p.data))
        r == slice_get(p.data, len)
    IN  IF r.some THEN r.slice ELSE << >>

\* recvmmsg into the iovec over data_mut(): the datagram overwrites the front
\* of the buffer, is cut at the buffer's size, and the rest stays as it was
recv_into(p, datagram) ==
    [p EXCEPT !.data = [i \in 1..Len(p.data) |->
                          IF i <= Len(datagram) THEN datagram[i] ELSE p.data[i]]]

\* ---------------------------------------------------------------- decoders
\* <[u8]>::get(from..to): None when the range runs past the end of the slice
range_get(packet, from, to) ==
    IF to <= Len(packet) THEN [some |-> TRUE, slice |-> SubSeq(packet, from + 1, to)]
    ELSE [some |-> FALSE]

\* <[u8]>::get(i): None when i is past the end
byte_get(packet, i) ==
    IF i < Len(packet) THEN [some |-> TRUE, byte |-> packet[i + 1]]
    ELSE [some |-> FALSE]

\* x << n, x >> n and the bitwise x & y, x | y on unsigned values
shl(x, n) == x * 2^n
shr(x, n) == x \div 2^n

RECURSIVE bitand(_, _)
bitand(x, y) ==
    IF x = 0 \/ y = 0 THEN 0
    ELSE (x % 2) * (y % 2) + 2 * bitand(x \div 2, y \div 2)

RECURSIVE bitor(_, _)
bitor(x, y) ==
    IF x = 0 THEN y
    ELSE IF y = 0 THEN x
    ELSE (IF x % 2 = 1 \/ y % 2 = 1 THEN 1 ELSE 0) + 2 * bitor(x \div 2, y \div 2)

\* u16::from_be_bytes
u16_from_be_bytes(b) == 256 * b[1] + b[2]

\* A u64 does not fit the checker's integers: it is kept as its base-1000
\* digits, least significant first, without leading zeros (0 is << >>).
RECURSIVE big_norm(_)
big_norm(x) ==
    IF x = << >> THEN x
    ELSE IF x[Len(x)] = 0 THEN big_norm(SubSeq(x, 1, Len(x) - 1))
    ELSE x

\* x * m + c for small m and c
RECURSIVE big_mul_add(_, _, _)
big_mul_add(x, m, c) ==
    IF x = << >>
    THEN (IF c = 0 THEN << >>
          ELSE <<c % 1000>> \o big_mul_add(<< >>, m, c \div 1000))
    ELSE LET t == Head(x) * m + c
         IN  <<t % 1000>> \o big_mul_add(Tail(x), m, t \div 1000)

\* x / d and x % d for a small divisor d, by long division
RECURSIVE big_div_rem(_, _)
big_div_rem(x, d) ==
    IF x = << >> THEN [q |-> << >>, r |-> 0]
    ELSE LET high == big_div_rem(Tail(x), d)
             cur == high.r * 1000 + Head(x)
         IN  [q |-> big_norm(<<cur \div d>> \o high.q), r |-> cur % d]

big_div(x, d) == big_div_rem(x, d).q
big_rem(x, d) == big_div_rem(x, d).r

\* The value of a u64 that is below 2^31
RECURSIVE big_to_int(_)
big_to_int(x) == IF x = << >> THEN 0 ELSE Head(x) + 1000 * big_to_int(Tail(x))

\* x / 4_000_000_000 and x % 4_000_000_000, with 4_000_000_000 = 4 * 1000^3
big_div_4e9(x) ==
    LET q == big_div(x, 4)
    IN  SubSeq(q, 4, Len(q))

big_rem_4e9(x) ==
    LET q == big_div(x, 4)
    IN  big_norm(big_mul_add(SubSeq(q, 1, Min(3, Len(q))), 4, big_rem(x, 4)))

\* The big-endian value of a byte string
RECURSIVE big_from_be_bytes(_)
big_from_be_bytes(b) ==
    IF b = << >> THEN << >>
    ELSE big_norm(big_mul_add(big_from_be_bytes(SubSeq(b, 1, Len(b) - 1)),
                              256, b[Len(b)]))

\* u64::from_be_bytes
u64_from_be_bytes(b) == big_from_be_bytes(b)

\* sdds::frame_sequence_number
frame_sequence_number(packet) ==
    LET b == range_get(packet, 2, 4)
    IN  IF b.some THEN u16_from_be_bytes(b.slice) ELSE 0

\* sdds::time_tag
time_tag(packet) ==
    LET b == range_get(packet, 8, 16)
    IN  IF b.some THEN u64_from_be_bytes(b.slice) ELSE << >>

\* Mutant of sddstime: the day index starts at 0.
sddstime_zero_based(timetag) ==
    LET tt1 == big_div_4e9(timetag)
        tt2 == big_div(tt1, 60)
        tt3 == big_div(tt2, 60)
    IN  <<big_to_int(big_div(tt3, 24)), big_rem(tt3, 24), big_rem(tt2, 60),
          big_rem(tt1, 60), big_to_int(big_div(big_rem_4e9(timetag), 4))>>

\* sdds::sddstime: (days, hours, mins, secs, nsecs). The `as u32` casts keep
\* the value: after the divisions tt is below 2^64 / 4_000_000_000.
sddstime(timetag) ==
    LET nsecs == big_to_int(big_div(big_rem_4e9(timetag), 4))
        tt1 == big_div_4e9(timetag)
        secs == big_rem(tt1, 60)
        tt2 == big_div(tt1, 60)
        mins == big_rem(tt2, 60)
        tt3 == big_div(tt2, 60)
        hours == big_rem(tt3, 24)
        tt4 == big_div(tt3, 24)
        days == 1 + big_to_int(tt4)
    IN  <<days, hours, mins, secs, nsecs>>

\* sdds::format_timestamp, as the five fields the string is formatted from
format_timestamp(timetag) == sddstime(timetag)

\* "VRLP"
VRLP == <<86, 82, 76, 80>>

Vita49Header(seq, size) == [frame_sequence_number |-> seq, frame_size |-> size]

\* Mutant of parse_header: the sequence number is taken as the low 12 bits of
\* the first 16 header bits.
parse_header_low12(packet) ==
    IF Len(packet) < 8 \/ SubSeq(packet, 1, 4) # VRLP THEN Vita49Header(0, 0)
    ELSE Vita49Header(bitand(bitor(shl(packet[5], 8), packet[6]), 4095),
                      bitor(bitor(shl(bitand(packet[6], 15), 16),
                                  shl(packet[7], 8)), packet[8]))

\* Mutant of parse_header: the identifier is not compared.
parse_header_any(packet) ==
    IF Len(packet) < 8 THEN Vita49Header(0, 0)
    ELSE Vita49Header(bitor(shl(packet[5], 4), shr(packet[6], 4)),
                      bitor(bitor(shl(bitand(packet[6], 15), 16),
                                  shl(packet[7], 8)), packet[8]))

\* vita49::parse_header
parse_header(packet) ==
    IF Len(packet) < 8 THEN Vita49Header(0, 0)
    ELSE LET id == range_get(packet, 0, 4)
         IN  IF ~(id.some /\ id.slice = VRLP) THEN Vita49Header(0, 0)
             ELSE LET b4 == byte_get(packet, 4)
                      b5 == byte_get(packet, 5)
                      b6 == byte_get(packet, 6)
                      b7 == byte_get(packet, 7)
                      byte4 == IF b4.some THEN b4.byte ELSE 0
                      byte5 == IF b5.some THEN b5.byte ELSE 0
                      byte6 == IF b6.some THEN b6.byte ELSE 0
                      byte7 == IF b7.some THEN b7.byte ELSE 0
                      frame_sequence_number_ == bitor(shl(byte4, 4), shr(byte5, 4))
                      frame_size == bitor(bitor(shl(bitand(byte5, 15), 16),
                                                shl(byte6, 8)), byte7)
                  IN  Vita49Header(frame_sequence_number_, frame_size)

\* ------------------------------------------- statistics: sequence gaps
\* SddsState::default() and Vita49State::default(); None is << >>
SddsDefault == [last_seq |-> << >>, skipped_in_period |-> 0, latest_timestamp |-> << >>]
Vita49Default == [last_seq |-> << >>, skipped_in_period |-> 0]

\* Mutant of is_multiple_of: no sequence number is a parity packet.
is_multiple_of_never(seq, n) == FALSE

\* u16::is_multiple_of
is_multiple_of(seq, n) == seq % n = 0

\* u16::wrapping_add
wrapping_add(x, y) == (x + y) % 65536

\* run_statistics, the SDDS process_packet closure
sdds_process(packet, state) ==
    LET seq == frame_sequence_number(packet)
    IN  IF is_multiple_of(seq, 32)
        THEN [state EXCEPT !.last_seq = <<seq>>]
        ELSE LET skipped ==
                   IF state.last_seq = << >> THEN 0
                   ELSE LET expected == wrapping_add(state.last_seq[1], 1)
                        IN  IF seq = expected THEN 0
                            ELSE IF seq > expected THEN seq - expected
                            ELSE (65535 - expected + seq + 1) % 65536
             IN  [last_seq |-> <<seq>>,
                  skipped_in_period |-> state.skipped_in_period + skipped,
                  latest_timestamp |-> <<format_timestamp(time_tag(packet))>>]

\* Mutant of vita49_process: gaps are counted on 16 bits, as for SDDS.
vita49_process_u16(packet, state) ==
    LET seq == parse_header(packet).frame_sequence_number
        skipped == IF state.last_seq = << >> THEN 0
                   ELSE LET expected == wrapping_add(state.last_seq[1], 1)
                        IN  IF seq = expected THEN 0
                            ELSE IF seq > expected THEN seq - expected
                            ELSE 65536 - expected + seq
    IN  [last_seq |-> <<seq>>,
         skipped_in_period |-> state.skipped_in_period + skipped]

\* run_statistics, the VITA49 process_packet closure
vita49_process(packet, state) ==
    LET header == parse_header(packet)
        seq == header.frame_sequence_number
        skipped ==
            IF state.last_seq = << >> THEN 0
            ELSE LET expected == bitand(state.last_seq[1] + 1, 4095)
                 IN  IF seq = expected THEN 0
                     ELSE IF seq > expected THEN seq - expected
                     ELSE 4096 - expected + seq
    IN  [last_seq |-> <<seq>>,
         skipped_in_period |-> state.skipped_in_period + skipped]

\* produce_stats before its loop: packet_count = 0, state = S::default()
GapInit ==
    /\ sdds_state = SddsDefault
    /\ vita_state = Vita49Default
    /\ st_count = 0
    /\ st_log = << >>

\* No decoder has been called
DecodeInit ==
    /\ dec_in = << >>
    /\ dec_out = << >>

\* The slab before the first loop iteration, nothing received or published yet
SlabInit ==
    /\ slab = [i \in 1..SlabCount |-> with_capacity(SlabBytes)]
    /\ slab_counts = << >>
    /\ slab_msgs = << >>
    /\ slab_batches = << >>
    /\ nPc = "head"

\* A default Packet, nothing read from it yet
PacketInit ==
    /\ pkt = Packet_new(<< >>)
    /\ pkt_view = << >>

\* main up to the poll loop: the shared state, the channels and the threads
InitCore(a, src, f, e, pc, inp) ==
    /\ args = a
    /\ source = src
    /\ file = f
    /\ reads = IF a.input = "none" THEN << >>
               ELSE ReadAll(a.packet_type = "Text", f)
    /\ ends = e
    /\ packet_count = 0
    /\ should_exit = FALSE
    /\ dataCh = << >>
    /\ statsCh = << >>
    /\ rPc = pc /\ rPos = 0 /\ rBatch = << >> /\ rRes = "running"
    /\ rInput = inp
    /\ wPc = "recv" /\ wRes = "running" /\ out = << >>
    /\ sPc = IF a.stats THEN "recv" ELSE "absent"
    /\ sRes = "running" /\ sCount = 0 /\ sState = << >>
    /\ supPc = "poll" /\ all_threads = Threads(a)
    /\ exiting_timeout = << >>
    /\ published = << >> /\ dataEnq = << >> /\ statsEnq = << >>
    /\ dataDrops = << >> /\ statsDrops = << >>
    /\ wTaken = << >> /\ wDrained = << >> /\ sTaken = << >> /\ sWindow = << >> /\ sQueuedAtExit = << >>
    /\ interrupted = FALSE
    /\ graceSeen = << >>

InitState(a, src, f, e, pc, inp) ==
    /\ InitCore(a, src, f, e, pc, inp)
    /\ SlabInit
    /\ PacketInit
    /\ GapInit
    /\ DecodeInit

\* The reader has entered the read loop of its input
InitRun(a, src, f, e) == InitState(a, src, f, e, "head", run_reader(a.input))

InitWith(a, src, e) == InitRun(a, src, FileOf(a, src), e)

Init ==
    \E a \in ArgSet : \E src \in SourceSet(a) : \E e \in EndSet(a) :
        InitWith(a, src, e)


\* --------------------------------------------------------------- channels
\* The process is alive until main returns; then every thread is gone.
ProcessAlive == supPc \notin {"ok", "err"}

\* A stage's channel endpoints are dropped when its thread function returns.
SenderAlive == rPc # "done"
DataRxAlive == wPc # "done"
StatsRxAlive == sPc # "done"

\* Mutant of try_send: one capacity budget shared by the two channels.
try_send_shared(ch, batch, rxAlive) ==
    IF ~rxAlive THEN [res |-> "Disconnected", ch |-> ch]
    ELSE IF Len(dataCh) + Len(statsCh) >= buffer_size THEN [res |-> "Full", ch |-> ch]
    ELSE [res |-> "Ok", ch |-> Append(ch, batch)]

\* crossbeam_channel::Sender::try_send on a bounded(buffer_size) channel
try_send(ch, batch, rxAlive) ==
    IF ~rxAlive THEN [res |-> "Disconnected", ch |-> ch]
    ELSE IF Len(ch) >= buffer_size THEN [res |-> "Full", ch |-> ch]
    ELSE [res |-> "Ok", ch |-> Append(ch, batch)]

\* Mutant of write_batch_to_channel: a full channel is reported as an error.
write_batch_strict(batch, ch, rxAlive) ==
    IF rxAlive /\ Len(ch) < buffer_size
    THEN [ok |-> TRUE, sent |-> TRUE, ch |-> Append(ch, batch)]
    ELSE [ok |-> FALSE, sent |-> FALSE, ch |-> ch]

\* reader.rs write_batch_to_channel: Ok(()) on Ok and on Full (drop), Err on
\* Disconnected
write_batch_to_channel(batch, ch, rxAlive) ==
    LET r == try_send(ch, batch, rxAlive)
    IN  [ok |-> r.res # "Disconnected", sent |-> r.res = "Ok", ch |-> r.ch]

\* Mutant of ChanHead: the newest queued batch is delivered.
ChanNewest(ch) == ch[Len(ch)]

\* crossbeam_channel::Receiver::try_recv / recv: the oldest queued batch
ChanHead(ch) == Head(ch)
ChanRest(ch) == Tail(ch)

\* Mutant of signal_exit: the flag is flipped instead of set.
signal_exit_toggle(flag) == ~flag

\* SharedState::signal_exit: should_exit.store(true)
signal_exit(flag) == TRUE

\* Mutant of add_count: the count is not advanced.
add_count_stale(count, delta) == count

\* SharedState::add_count: fetch_add(delta) + delta
add_count(count, delta) == count + delta

\* ------------------------------------------------------------------ reader
\* A thread's result: "running", "ok" (Ok(())), "err" (an I/O error) or
\* "critical" (LibError::Critical)
Failed(res) == res \in {"err", "critical"}

ReaderReturn(res) ==
    /\ rPc' = "done"
    /\ rRes' = res

\* run_reader: the match on the input argument; File::open of a path that does
\* not exist is returned by `?`
ReaderOpen ==
    /\ ProcessAlive
    /\ rPc = "open"
    /\ rInput' = run_reader(args.input)
    /\ \E found \in BOOLEAN :
         IF found \/ run_reader(args.input) # "file"
         THEN rPc' = "head" /\ UNCHANGED rRes
         ELSE ReaderReturn("err")
    /\ UNCHANGED <<cfgVars, partVars, sharedVars, dataCh, statsCh, rPos, rBatch,
                   writerVars, statVars, supVars, pubVars, interrupted>>

\* Mutant of ReaderHead: the loop head does not look at should_exit.
ReaderHeadBlind ==
    /\ ProcessAlive
    /\ rPc = "head"
    /\ IF ReaderMode = "network" /\ max_count > 0 /\ packet_count >= max_count
       THEN ReaderReturn("ok") /\ should_exit' = signal_exit(should_exit)
       ELSE rPc' = "read" /\ UNCHANGED <<rRes, should_exit>>
    /\ UNCHANGED <<cfgVars, partVars, rInput, packet_count, dataCh, statsCh, rPos, rBatch,
                   writerVars, statVars, supVars, pubVars, interrupted>>

\* The head of the read loops: the should_exit check, and in read_from_network
\* also the max-count gate.
ReaderHead ==
    /\ ProcessAlive
    /\ rPc = "head"
    /\ IF should_exit
       THEN ReaderReturn("ok") /\ UNCHANGED should_exit
       ELSE IF ReaderMode = "network" /\ max_count > 0 /\ packet_count >= max_count
       THEN ReaderReturn("ok") /\ should_exit' = signal_exit(should_exit)
       ELSE rPc' = "read" /\ UNCHANGED <<rRes, should_exit>>
    /\ UNCHANGED <<cfgVars, partVars, rInput, packet_count, dataCh, statsCh, rPos, rBatch,
                   writerVars, statVars, supVars, pubVars, interrupted>>

\* Mutant of count_received: every descriptor is taken as received.
count_received_all(byte_counts) == Len(byte_counts)

\* byte_counts.iter().take_while(|b| b > 0).count()
count_received(byte_counts) ==
    CHOOSE n \in 0..Len(byte_counts) :
        /\ \A i \in 1..n : byte_counts[i] > 0
        /\ n = Len(byte_counts) \/ byte_counts[n + 1] = 0

\* Mutant of send_count: the received batch is not cut to the remaining count.
send_count_unclamped(received, count) == received

\* "Make sure we only send up to max packets"
send_count(received, count) ==
    IF max_count > 0 /\ received > max_count - count
    THEN max_count - count
    ELSE received

\* read_from_network, one recvmmsg: when nothing has arrived within the 100 ms
\* socket timeout it fails with EAGAIN and the loop continues (k = 0);
\* otherwise it returns between one and RECVMMSG_BUFFER_COUNT datagrams.
ReadFromNetwork ==
    /\ ProcessAlive
    /\ rPc = "read"
    /\ ReaderMode = "network"
    /\ \E k \in 0..Min(Len(source) - rPos, RECVMMSG_BUFFER_COUNT) :
         LET byte_counts == SubSeq(source, rPos + 1, rPos + k)
             n == count_received(byte_counts)
             m == send_count(n, packet_count)
         IN  /\ rPos' = rPos + k
             /\ IF n = 0
                THEN rPc' = "head" /\ UNCHANGED rBatch
                ELSE rPc' = "send_data" /\ rBatch' = Range(rPos + 1, rPos + m)
    /\ UNCHANGED <<cfgVars, partVars, rInput, sharedVars, dataCh, statsCh, rRes,
                   writerVars, statVars, supVars, pubVars, interrupted>>

\* The reader's next read of the input file
NextItem == reads[rPos + 1]

\* read_text_mode: read_line blocks until a line or end of file
\* (bytes_read = 0 => break); its error is returned by `?`
ReadTextLine ==
    /\ ProcessAlive
    /\ rPc = "read"
    /\ ReaderMode = "text"
    /\ LET r == NextItem
       IN  CASE r.kind = "packet" ->
                  /\ rPos' = rPos + 1
                  /\ rBatch' = <<rPos + 1>>
                  /\ rPc' = "send_data"
                  /\ UNCHANGED rRes
             [] r.kind = "eof" ->
                  /\ ends
                  /\ ReaderReturn("ok")
                  /\ UNCHANGED <<rPos, rBatch>>
             [] OTHER ->
                  /\ ReaderReturn("err")
                  /\ UNCHANGED <<rPos, rBatch>>
    /\ UNCHANGED <<cfgVars, partVars, rInput, sharedVars, dataCh, statsCh,
                   writerVars, statVars, supVars, pubVars, interrupted>>

\* read_binary_mode: read_exact of the length prefix (UnexpectedEof => break),
\* `length > MAX_PACKET_SIZE` => Critical, read_exact of the payload (`?`).
\* A read that lacks bytes waits while the input stays open.
ReadBinaryRecord ==
    /\ ProcessAlive
    /\ rPc = "read"
    /\ ReaderMode = "binary"
    /\ LET r == NextItem
       IN  CASE r.kind = "packet" ->
                  /\ rPos' = rPos + 1
                  /\ rBatch' = <<rPos + 1>>
                  /\ rPc' = "send_data"
                  /\ UNCHANGED rRes
             [] r.kind = "eof" ->
                  /\ ends
                  /\ ReaderReturn("ok")
                  /\ UNCHANGED <<rPos, rBatch>>
             [] r.kind = "too_large" ->
                  /\ ReaderReturn("critical")
                  /\ UNCHANGED <<rPos, rBatch>>
             [] OTHER ->
                  /\ ends
                  /\ ReaderReturn("err")
                  /\ UNCHANGED <<rPos, rBatch>>
    /\ UNCHANGED <<cfgVars, partVars, rInput, sharedVars, dataCh, statsCh,
                   writerVars, statVars, supVars, pubVars, interrupted>>

\* write_batch_to_channel(&batch, data_tx)?
ReaderSendData ==
    /\ ProcessAlive
    /\ rPc = "send_data"
    /\ LET r == write_batch_to_channel(rBatch, dataCh, DataRxAlive)
       IN  /\ dataCh' = r.ch
           /\ published' = published \o rBatch
           /\ dataEnq' = IF r.sent THEN dataEnq \o rBatch ELSE dataEnq
           /\ dataDrops' = IF r.ok /\ ~r.sent THEN dataDrops \o rBatch ELSE dataDrops
           /\ IF r.ok
              THEN /\ rPc' = IF StatsEnabled THEN "send_stats" ELSE "count"
                   /\ UNCHANGED rRes
              ELSE ReaderReturn("critical")
    /\ UNCHANGED <<cfgVars, partVars, rInput, sharedVars, statsCh, rPos, rBatch,
                   writerVars, statVars, supVars, statsEnq, statsDrops, interrupted>>

\* if let Some(stats_tx) = stats_tx { write_batch_to_channel(&batch, stats_tx)? }
ReaderSendStats ==
    /\ ProcessAlive
    /\ rPc = "send_stats"
    /\ LET r == write_batch_to_channel(rBatch, statsCh, StatsRxAlive)
       IN  /\ statsCh' = r.ch
           /\ statsEnq' = IF r.sent THEN statsEnq \o rBatch ELSE statsEnq
           /\ statsDrops' = IF r.ok /\ ~r.sent THEN statsDrops \o rBatch ELSE statsDrops
           /\ IF r.ok
              THEN rPc' = "count" /\ UNCHANGED rRes
              ELSE ReaderReturn("critical")
    /\ UNCHANGED <<cfgVars, partVars, rInput, sharedVars, dataCh, rPos, rBatch,
                   writerVars, statVars, supVars, published, dataEnq, dataDrops,
                   interrupted>>

\* Mutant of ReaderCount: only the packets the data channel accepted are counted.
ReaderCountDelivered ==
    /\ ProcessAlive
    /\ rPc = "count"
    /\ LET delivered ==
             Cardinality({i \in 1..Len(rBatch) :
                             \E j \in 1..Len(dataEnq) : dataEnq[j] = rBatch[i]})
           already_sent == add_count(packet_count, delivered)
       IN  /\ packet_count' = already_sent
           /\ IF max_count > 0 /\ already_sent >= max_count
              THEN should_exit' = signal_exit(should_exit) /\ ReaderReturn("ok")
              ELSE rPc' = "head" /\ UNCHANGED <<should_exit, rRes>>
    /\ UNCHANGED <<cfgVars, partVars, rInput, dataCh, statsCh, rPos, rBatch,
                   writerVars, statVars, supVars, pubVars, interrupted>>

\* let already_sent = add_count(batch.len()); the max-count gate
ReaderCount ==
    /\ ProcessAlive
    /\ rPc = "count"
    /\ LET already_sent == add_count(packet_count, Len(rBatch))
       IN  /\ packet_count' = already_sent
           /\ IF max_count > 0 /\ already_sent >= max_count
              THEN should_exit' = signal_exit(should_exit) /\ ReaderReturn("ok")
              ELSE rPc' = "head" /\ UNCHANGED <<should_exit, rRes>>
    /\ UNCHANGED <<cfgVars, partVars, rInput, dataCh, statsCh, rPos, rBatch,
                   writerVars, statVars, supVars, pubVars, interrupted>>


\* ------------------------------------------------------------------ writer
WriterReturn(res) ==
    /\ wPc' = "done"
    /\ wRes' = res

\* What one received batch adds to the output in the main loop: the file and
\* stdout writers write every packet (write_all), the rate limited writer sends
\* every packet (sendmsg), write_to_devnull discards.
WriterEmit(batch) ==
    IF WriterMode = "devnull" THEN << >> ELSE batch

\* Mutant of WriterDrainEmit: every writer empties the channel without writing.
WriterDrainDiscard(batch) == << >>

\* What one batch of the shutdown drain adds to the output: write_text_mode and
\* write_binary_mode write it; write_with_rate_limit runs
\* `for _ in data_rx.try_iter() {}`, which sends nothing.
WriterDrainEmit(batch) ==
    IF WriterMode \in {"text", "binary"} THEN batch ELSE << >>

\* write_text_mode / write_binary_mode / write_with_rate_limit:
\* `while let Ok(batch) = data_rx.recv()`, then the packets of the batch
WriterRecv ==
    /\ ProcessAlive
    /\ wPc = "recv"
    /\ WriterMode \in {"text", "binary", "rate"}
    /\ IF dataCh # << >>
       THEN /\ out' = out \o WriterEmit(ChanHead(dataCh))
            /\ wTaken' = wTaken \o ChanHead(dataCh)
            /\ dataCh' = ChanRest(dataCh)
            /\ wPc' = "check"
            /\ UNCHANGED wRes
       ELSE /\ ~SenderAlive          \* recv() blocks while the sender lives
            /\ WriterReturn("ok")
            /\ UNCHANGED <<out, wTaken, dataCh>>
    /\ UNCHANGED <<cfgVars, partVars, sharedVars, statsCh, readerVars, wDrained,
                   statVars, supVars, pubVars, interrupted>>

\* `if shared_state.should_exit() { drain; break }`
WriterCheck ==
    /\ ProcessAlive
    /\ wPc = "check"
    /\ wPc' = IF should_exit THEN "drain" ELSE "recv"
    /\ UNCHANGED <<cfgVars, partVars, sharedVars, dataCh, statsCh, readerVars,
                   wRes, out, wTaken, wDrained, statVars, supVars, pubVars,
                   interrupted>>

\* one try_recv of `data_rx.try_iter()`; the iterator ends at the first failure
WriterDrain ==
    /\ ProcessAlive
    /\ wPc = "drain"
    /\ IF dataCh # << >>
       THEN /\ out' = out \o WriterDrainEmit(ChanHead(dataCh))
            /\ wTaken' = wTaken \o ChanHead(dataCh)
            /\ wDrained' = wDrained \o ChanHead(dataCh)
            /\ dataCh' = ChanRest(dataCh)
            /\ UNCHANGED wPc
       ELSE /\ wPc' = "ret"
            /\ UNCHANGED <<out, wTaken, wDrained, dataCh>>
    /\ UNCHANGED <<cfgVars, partVars, sharedVars, statsCh, readerVars,
                   wRes, statVars, supVars, pubVars, interrupted>>

\* the function returns Ok(()) and data_rx is dropped
WriterExit ==
    /\ ProcessAlive
    /\ wPc = "ret"
    /\ WriterReturn("ok")
    /\ UNCHANGED <<cfgVars, partVars, sharedVars, dataCh, statsCh, readerVars,
                   out, wTaken, wDrained, statVars, supVars, pubVars,
                   interrupted>>

\* write_to_devnull: recv_timeout(100 ms); Ok discards, Timeout checks
\* should_exit, Disconnected breaks
WriterDevnull ==
    /\ ProcessAlive
    /\ wPc = "recv"
    /\ WriterMode = "devnull"
    /\ IF dataCh # << >>
       THEN /\ out' = out \o WriterEmit(ChanHead(dataCh))
            /\ wTaken' = wTaken \o ChanHead(dataCh)
            /\ dataCh' = ChanRest(dataCh)
            /\ UNCHANGED <<wPc, wRes>>
       ELSE /\ IF ~SenderAlive THEN WriterReturn("ok")
               ELSE should_exit /\ wPc' = "ret" /\ UNCHANGED wRes
            /\ UNCHANGED <<out, wTaken, dataCh>>
    /\ UNCHANGED <<cfgVars, partVars, sharedVars, statsCh, readerVars, wDrained,
                   statVars, supVars, pubVars, interrupted>>

\* write_with_sendmmsg: up to BATCH_SIZE try_recv, else recv_timeout(100 ms);
\* the flattened packets, cut at BATCH_SIZE, go out in one sendmmsg
\* Mutant of collect_batches: every queued batch is collected.
collect_all(ch) == ch

\* write_with_sendmmsg, `for _ in 0..BATCH_SIZE { try_recv }` and the
\* recv_timeout that follows when nothing was queued: the oldest queued
\* batches, BATCH_SIZE of them at most
collect_batches(ch) == Take(ch, BATCH_SIZE)

WriterSendmmsg ==
    /\ ProcessAlive
    /\ wPc = "recv"
    /\ WriterMode = "sendmmsg"
    /\ IF dataCh # << >>
       THEN LET packet_batch == collect_batches(dataCh)
                packets == Take(Flatten(packet_batch), BATCH_SIZE)
            IN  /\ out' = out \o packets
                /\ wTaken' = wTaken \o Flatten(packet_batch)
                /\ dataCh' = SubSeq(dataCh, Len(packet_batch) + 1, Len(dataCh))
                /\ UNCHANGED <<wPc, wRes>>
       ELSE /\ IF ~SenderAlive THEN WriterReturn("ok")
               ELSE should_exit /\ wPc' = "ret" /\ UNCHANGED wRes
            /\ UNCHANGED <<out, wTaken, dataCh>>
    /\ UNCHANGED <<cfgVars, partVars, sharedVars, statsCh, readerVars, wDrained,
                   statVars, supVars, pubVars, interrupted>>

\* -------------------------------------------------------------- statistics
\* process_packet(packet, &mut state): the accumulator is kept as the sequence
\* of packets it has absorbed since it was last reset
process_packet(state, batch) == state \o batch

\* produce_stats, the drain after should_exit: what one drained batch adds to
\* the window's packet_count (the drain loop has no `packet_count += 1`)
DrainCount(batch) == 0

\* produce_stats: recv_timeout(100 ms) and the packets of the batch, then the
\* report tick when two seconds have passed (the tick resets count and state)
StatsRecv ==
    /\ ProcessAlive
    /\ sPc = "recv"
    /\ \E tick \in BOOLEAN :
         LET got == IF statsCh # << >> THEN ChanHead(statsCh) ELSE << >>
         IN  /\ statsCh' = IF statsCh # << >> THEN ChanRest(statsCh) ELSE statsCh
             /\ sTaken' = sTaken \o got
             /\ sCount' = IF tick THEN 0 ELSE sCount + Len(got)
             /\ sState' = IF tick THEN << >> ELSE process_packet(sState, got)
             /\ sWindow' = IF tick THEN << >> ELSE sWindow \o got
    /\ sPc' = "check"
    /\ UNCHANGED <<cfgVars, partVars, sharedVars, dataCh, readerVars, writerVars,
                   sRes, sQueuedAtExit, supVars, pubVars, interrupted>>

\* Mutant of StatsCheck: the loop never looks at should_exit.
StatsCheckNever ==
    /\ ProcessAlive
    /\ sPc = "check"
    /\ sPc' = "recv"
    /\ UNCHANGED <<cfgVars, partVars, sharedVars, dataCh, statsCh, readerVars,
                   writerVars, sRes, sCount, sState, sTaken, sWindow,
                   sQueuedAtExit, supVars, pubVars, interrupted>>

\* `if shared_state.should_exit() { drain; break }`
StatsCheck ==
    /\ ProcessAlive
    /\ sPc = "check"
    /\ IF should_exit
       THEN sPc' = "drain" /\ sQueuedAtExit' = Flatten(statsCh)
       ELSE sPc' = "recv" /\ UNCHANGED sQueuedAtExit
    /\ UNCHANGED <<cfgVars, partVars, sharedVars, dataCh, statsCh, readerVars,
                   writerVars, sRes, sCount, sState, sTaken, sWindow, supVars,
                   pubVars, interrupted>>

\* one try_recv of the drain's `data_rx.try_iter()`; the function returns when
\* the iterator ends
StatsDrain ==
    /\ ProcessAlive
    /\ sPc = "drain"
    /\ IF statsCh # << >>
       THEN /\ sState' = process_packet(sState, ChanHead(statsCh))
            /\ sCount' = sCount + DrainCount(ChanHead(statsCh))
            /\ sTaken' = sTaken \o ChanHead(statsCh)
            /\ sWindow' = sWindow \o ChanHead(statsCh)
            /\ statsCh' = ChanRest(statsCh)
            /\ UNCHANGED <<sPc, sRes>>
       ELSE /\ sPc' = "done"          \* Ok(()); the receiver is dropped
            /\ sRes' = "ok"
            /\ UNCHANGED <<sState, sCount, sTaken, sWindow, statsCh>>
    /\ UNCHANGED <<cfgVars, partVars, sharedVars, dataCh, readerVars, writerVars,
                   sQueuedAtExit, supVars, pubVars, interrupted>>

\* -------------------------------------------------------------- supervisor
\* JoinHandle::is_finished and the value join() returns
IsFinished(h) ==
    CASE h = "reader" -> rPc = "done"
      [] h = "writer" -> wPc = "done"
      [] h = "statistics" -> sPc = "done"

JoinResult(h) ==
    CASE h = "reader" -> rRes
      [] h = "writer" -> wRes
      [] h = "statistics" -> sRes

\* Milliseconds on a clock that has been started, after one more sleep. A clock
\* stops at `stop`, past which nothing depends on it any more.
Later(clock, stop) ==
    IF clock = << >> THEN clock
    ELSE <<Min(clock[1] + POLL_MS, stop)>>

\* main.rs, the head of the poll loop, when should_exit is set:
\*   if exiting_timeout.is_some_and(|t| t.elapsed() > 1 s) { return Err }
\*   else { exiting_timeout = Some(Instant::now()) }
\* exiting_timeout is kept as the time elapsed since the stored instant.
GraceExpired(timeout) == timeout # << >> /\ timeout[1] > GRACE_MS
GraceRestart(timeout) == <<0>>

\* Mutant of JoinPass: a clean join does not call signal_exit().
RECURSIVE JoinPassSilent(_, _, _)
JoinPassSilent(handles, signalled, running) ==
    IF handles = << >>
    THEN [err |-> FALSE, signalled |-> signalled, still_running |-> running]
    ELSE LET h == Head(handles)
         IN  IF IsFinished(h)
             THEN IF Failed(JoinResult(h))
                  THEN [err |-> TRUE, signalled |-> signalled,
                        still_running |-> running]
                  ELSE JoinPassSilent(Tail(handles), signalled, running)
             ELSE JoinPassSilent(Tail(handles), signalled, Append(running, h))

\* main.rs, `for handle in all_threads.into_iter()`: a finished handle is
\* joined; its error is returned at once by `?`, else signal_exit() is called;
\* a handle that is not finished goes to still_running.
RECURSIVE JoinPass(_, _, _)
JoinPass(handles, signalled, running) ==
    IF handles = << >>
    THEN [err |-> FALSE, signalled |-> signalled, still_running |-> running]
    ELSE LET h == Head(handles)
         IN  IF IsFinished(h)
             THEN IF Failed(JoinResult(h))
                  THEN [err |-> TRUE, signalled |-> signalled,
                        still_running |-> running]
                  ELSE JoinPass(Tail(handles), TRUE, running)
             ELSE JoinPass(Tail(handles), signalled, Append(running, h))

\* main.rs, one iteration of the poll loop: the grace check, the join pass,
\* then break when no thread is left, else sleep 100 ms. With `timed` the
\* history variable graceSeen records the time since the supervisor first saw
\* should_exit.
SupIteration(timed) ==
    /\ supPc = "poll"
    /\ IF should_exit /\ GraceExpired(exiting_timeout)
       THEN /\ supPc' = "err"                 \* Err("Exiting")
            /\ UNCHANGED <<should_exit, all_threads, exiting_timeout, graceSeen>>
       ELSE LET timeout == IF should_exit THEN GraceRestart(exiting_timeout)
                           ELSE exiting_timeout
                seen == IF timed /\ should_exit /\ graceSeen = << >>
                        THEN <<0>> ELSE graceSeen
                pass == JoinPass(all_threads, FALSE, << >>)
            IN  /\ should_exit' = IF pass.signalled THEN signal_exit(should_exit)
                                  ELSE should_exit
                /\ IF pass.err
                   THEN /\ supPc' = "err"     \* the stage's error
                        /\ exiting_timeout' = timeout
                        /\ graceSeen' = seen
                        /\ UNCHANGED all_threads
                   ELSE /\ all_threads' = pass.still_running
                        /\ IF pass.still_running = << >>
                           THEN /\ supPc' = "ok"
                                /\ exiting_timeout' = timeout
                                /\ graceSeen' = seen
                           ELSE /\ supPc' = "poll"
                                /\ exiting_timeout' =
                                       Later(timeout, GRACE_MS + POLL_MS)
                                /\ graceSeen' =
                                       Later(seen, GRACE_MS + 2 * POLL_MS)
    /\ UNCHANGED <<cfgVars, partVars, packet_count, dataCh, statsCh, readerVars,
                   writerVars, statVars, pubVars, interrupted>>

SupPoll == SupIteration(FALSE)

SupPollTimed == SupIteration(TRUE)

\* the ctrlc handler: signal_exit()
Interrupt ==
    /\ ProcessAlive
    /\ ~interrupted
    /\ interrupted' = TRUE
    /\ should_exit' = signal_exit(should_exit)
    /\ UNCHANGED <<cfgVars, partVars, packet_count, dataCh, statsCh, readerVars,
                   writerVars, statVars, supVars, pubVars>>

\* ----------------------------------------------------------- specification
ReaderNext ==
    \/ ReaderHead \/ ReadFromNetwork \/ ReadTextLine \/ ReadBinaryRecord
    \/ ReaderSendData \/ ReaderSendStats \/ ReaderCount

WriterNext ==
    \/ WriterRecv \/ WriterCheck \/ WriterDrain \/ WriterExit
    \/ WriterDevnull \/ WriterSendmmsg

StatsNext == StatsRecv \/ StatsCheck \/ StatsDrain

SupNext == SupPoll

Next ==
    \/ ReaderHead
    \/ ReadFromNetwork
    \/ ReadTextLine
    \/ ReadBinaryRecord
    \/ ReaderSendData
    \/ ReaderSendStats
    \/ ReaderCount
    \/ WriterRecv
    \/ WriterCheck
    \/ WriterDrain
    \/ WriterExit
    \/ WriterDevnull
    \/ WriterSendmmsg
    \/ StatsRecv
    \/ StatsCheck
    \/ StatsDrain
    \/ SupPoll
    \/ Interrupt

Spec == Init /\ [][Next]_vars


\* ------------------------------------------------------------------ claims
NoStageError == ~Failed(rRes) /\ ~Failed(wRes) /\ ~Failed(sRes)
SupReturned == supPc \in {"ok", "err"}

\* the packets the input holds: datagrams with a payload, lines, records
SourcePackets == Cardinality({i \in 1..Len(source) : source[i] > 0})

\* C1: with max_count = M > 0, no stage error and no interrupt, packet_count
\* never exceeds M, and when the supervisor returns packet_count is M if the
\* source held at least M packets, else the number of packets it held.
C1_CountGate ==
    (max_count > 0 /\ NoStageError /\ ~interrupted) =>
        /\ packet_count <= max_count
        /\ SupReturned => packet_count = Min(max_count, SourcePackets)

\* C1 witness: a clean run of the network reader in which one recvmmsg returned
\* three datagrams and the batch was cut to the remaining count of two.
C1_Witness ==
    /\ ReaderMode = "network" /\ max_count = 2 /\ ~interrupted
    /\ rBatch = <<1, 2>> /\ rPos > 2 /\ packet_count = 2
    /\ supPc = "ok"

\* C2: the reader never blocks on a channel; a try-send that finds the data
\* (stats) channel full leaves both channels unchanged, returns no error and
\* the reader goes on to the next publish step; the count step then adds the
\* whole batch and the reader returns to the loop head (or stops at the gate).
C2_ReaderNeverBlocks ==
    /\ [](ProcessAlive /\ rPc \in {"send_data", "send_stats", "count"}
            => ENABLED ReaderNext)
    /\ [][(rPc = "send_data" /\ rPc' # rPc /\ DataRxAlive
              /\ Len(dataCh) >= buffer_size)
            => /\ dataCh' = dataCh /\ statsCh' = statsCh
               /\ rRes' = "running" /\ rBatch' = rBatch
               /\ rPc' = IF StatsEnabled THEN "send_stats" ELSE "count"]_vars
    /\ [][(rPc = "send_stats" /\ rPc' # rPc /\ StatsRxAlive
              /\ Len(statsCh) >= buffer_size)
            => /\ dataCh' = dataCh /\ statsCh' = statsCh
               /\ rRes' = "running" /\ rBatch' = rBatch
               /\ rPc' = "count"]_vars
    /\ [][(rPc = "count" /\ rPc' # rPc)
            => /\ packet_count' = packet_count + Len(rBatch)
               /\ \/ rPc' = "head" /\ rRes' = "running"
                  \/ rPc' = "done" /\ rRes' = "ok" /\ max_count > 0
                       /\ packet_count' >= max_count]_vars

\* C2 witness: a text reader whose batch was dropped at the full data channel
\* has counted that batch and read the next line, without an error.
C2_Witness ==
    /\ ReaderMode = "text" /\ rRes = "running"
    /\ dataDrops # << >>
    /\ packet_count >= dataDrops[1]
    /\ rPos > dataDrops[1]

\* C4: whether a published batch is enqueued on the data channel depends only
\* on the data channel (its occupancy, its receiver), and likewise for the
\* stats channel; a publish step on one channel leaves the other unchanged and
\* the reader goes on whatever the other channel's occupancy.
C4_ChannelsIndependent ==
    /\ [](ProcessAlive /\ rPc \in {"send_data", "send_stats"}
            => ENABLED (ReaderSendData \/ ReaderSendStats))
    /\ [][(rPc = "send_data" /\ rPc' # rPc)
            => /\ statsCh' = statsCh
               /\ (dataCh' = Append(dataCh, rBatch))
                     <=> (DataRxAlive /\ Len(dataCh) < buffer_size)
               /\ dataCh' # dataCh => dataCh' = Append(dataCh, rBatch)
               /\ DataRxAlive => rPc' \in {"send_stats", "count"}]_vars
    /\ [][(rPc = "send_stats" /\ rPc' # rPc)
            => /\ dataCh' = dataCh
               /\ (statsCh' = Append(statsCh, rBatch))
                     <=> (StatsRxAlive /\ Len(statsCh) < buffer_size)
               /\ statsCh' # statsCh => statsCh' = Append(statsCh, rBatch)
               /\ StatsRxAlive => rPc' = "count"]_vars

InSeq(x, q) == \E i \in 1..Len(q) : q[i] = x

\* C4 witness: one packet was dropped at the full stats channel but accepted
\* by the data channel, another dropped at the full data channel but accepted
\* by the stats channel.
C4_Witness ==
    /\ \E p \in 1..Len(source) : InSeq(p, statsDrops) /\ InSeq(p, dataEnq)
    /\ \E q \in 1..Len(source) : InSeq(q, dataDrops) /\ InSeq(q, statsEnq)

NoDup(q) == \A i, j \in 1..Len(q) : i # j => q[i] # q[j]

\* C5: what the writer takes off the data channel is, in order, exactly what
\* the channel accepted minus what is still queued, and an order-preserving
\* subsequence of what the reader published, nothing duplicated; the same for
\* statistics on the stats channel; the output keeps the order taken.
C5_FifoOrder ==
    /\ NoDup(published)
    /\ IsSubseq(wTaken, published)
    /\ IsSubseq(sTaken, published)
    /\ wTaken \o Flatten(dataCh) = dataEnq
    /\ sTaken \o Flatten(statsCh) = statsEnq
    /\ IsSubseq(out, wTaken)
    /\ IsSubseq(sState, sTaken)

\* C5 witness: writer and statistics each consumed two packets, and a packet
\* published in between never reached the writer.
C5_Witness ==
    /\ wTaken = <<1, 3>>
    /\ Len(sTaken) >= 2
    /\ buffer_size > 1


\* ------------------------------------------- the grace period (C6)
\* The text reader and the file writer under a supervisor whose time since it
\* first saw should_exit is recorded in graceSeen.
InitGrace ==
    \E a \in ArgSet : \E src \in SourceSet(a) : \E e \in EndSet(a) :
        /\ a.input = "some" /\ a.output = "some" /\ a.packet_type = "Text"
        /\ ~a.stats
        /\ InitWith(a, src, e)

NextGrace ==
    \/ ReaderHead
    \/ ReadTextLine
    \/ ReaderSendData
    \/ ReaderCount
    \/ WriterRecv
    \/ WriterCheck
    \/ WriterDrain
    \/ WriterExit
    \/ Interrupt
    \/ SupPollTimed

SpecGrace == InitGrace /\ [][NextGrace]_vars

\* read_line waits for a line that never comes and the input stays open
ReaderStuck == ReaderMode \in {"text", "binary"} /\ rPc = "read"
                 /\ rPos = Len(source) /\ ~ends

\* recv() waits on an empty channel whose sender is alive
WriterStuck == WriterMode \in {"text", "binary", "rate"} /\ wPc = "recv"
                 /\ dataCh = << >> /\ SenderAlive

\* C6: once the supervisor has seen should_exit, it does not go on polling for
\* more than one second: at the first poll later than that, with a stage still
\* running (here: reader and writer stuck in blocking calls), it has returned
\* a fatal error.
C6_GraceBound ==
    (graceSeen # << >> /\ graceSeen[1] > GRACE_MS + POLL_MS
        /\ ReaderStuck /\ WriterStuck)
    => supPc = "err"

\* C8: in file and stdout modes, when the writer has returned, everything the
\* data channel accepted has been written.
C8_WriterDrainsAll ==
    (wPc = "done" /\ WriterMode \in {"text", "binary"}) => out = dataEnq

\* C8, amended: when the writer has returned, everything it took off the
\* channel has been written, which is everything the channel accepted unless
\* the interrupt signal set should_exit (a batch the reader enqueues after the
\* drain found the channel empty is then left in the channel).
C8_WriterDrainsUnlessInterrupted ==
    (wPc = "done" /\ WriterMode \in {"text", "binary"})
    => /\ out = wTaken
       /\ dataEnq = out \o Flatten(dataCh)
       /\ ~interrupted => out = dataEnq

\* C8 witness: a file writer returned after its drain wrote a queued batch, in
\* a run without an interrupt.
C8_Witness ==
    /\ wPc = "done" /\ WriterMode \in {"text", "binary"} /\ ~interrupted
    /\ wDrained # << >>
    /\ out = dataEnq

\* C9: with a rate set, when the writer has returned, every packet it took off
\* the data channel was sent, the batches queued at shutdown included.
C9_RateSendsAll ==
    (wPc = "done" /\ WriterMode = "rate") => out = wTaken

\* C10: when statistics has returned, every batch that was queued when it saw
\* should_exit was processed exactly once, and the window's packet count and
\* accumulator cover every packet taken since the last report tick.
C10_StatsDrainCounted ==
    sPc = "done"
    => /\ \A i \in 1..Len(sQueuedAtExit) :
            Cardinality({j \in 1..Len(sTaken) : sTaken[j] = sQueuedAtExit[i]}) = 1
       /\ sState = sWindow
       /\ sCount = Len(sWindow)


\* ------------------------------------------- cancellation liveness (C7)
\* Every thread that can take a step eventually takes one (OS threads); the
\* input and the interrupt signal are under no obligation.
Fairness ==
    /\ WF_vars(ReaderNext)
    /\ WF_vars(WriterNext)
    /\ WF_vars(StatsNext)
    /\ WF_vars(SupPoll)

LiveSourceSet(a) ==
    IF a.input = "none" THEN [1..LiveSrc -> 0..MaxBytes]
    ELSE SeqsUpTo({1}, LiveSrc)

InitLive ==
    \E a \in ArgSet : \E src \in LiveSourceSet(a) : \E e \in EndSet(a) :
        InitWith(a, src, e)

SpecLive == InitLive /\ [][Next]_vars /\ Fairness

ReaderReturned == rPc = "done" \/ SupReturned
WriterReturned == wPc = "done" \/ SupReturned
StatsReturned == sPc \in {"done", "absent"} \/ SupReturned

\* C7: after should_exit becomes true the reader, the writer and statistics
\* each eventually return (or the process has ended), whatever the input does.
C7_AllStagesReturn ==
    should_exit ~> (ReaderReturned /\ WriterReturned /\ StatsReturned)

\* C7, amended: after should_exit becomes true, statistics, the network reader
\* and the devnull and sendmmsg writers eventually return whatever the input
\* does; the text and binary readers return once the pending read returns (an
\* input that ends), and the file, stdout and rate limited writers return once
\* the reader has returned.
C7_BoundedStagesReturn ==
    /\ should_exit ~> StatsReturned
    /\ (should_exit /\ ReaderMode = "network") ~> ReaderReturned
    /\ (should_exit /\ WriterMode \in {"devnull", "sendmmsg"}) ~> WriterReturned
    /\ (should_exit /\ ends) ~> ReaderReturned
    /\ (should_exit /\ rPc = "done") ~> WriterReturned

\* C7 witness: after an interrupt with no datagram ever received, the network
\* reader, the devnull writer and statistics have all returned.
C7_Witness ==
    /\ interrupted /\ ReaderMode = "network" /\ rPos = 0
    /\ rPc = "done" /\ wPc = "done" /\ sPc = "done"


\* -------------------------------------- backpressure at capacity one (C3)
\* A file is replayed through a data channel of capacity one into the file or
\* stdout writer; the input ends and nobody interrupts.
InitSlowWriter ==
    \E a \in ArgSet : \E src \in SourceSet(a) :
        /\ a.buffer_size = 1
        /\ a.input = "some" /\ a.output = "some"
        /\ a.count # 1
        /\ Len(src) >= 2
        /\ InitWith(a, src, TRUE)

\* The reader runs at twice the writer's pace: the writer's k-th receive
\* completes only after the reader has published 2k batches (or has returned).
WriterPaced == Len(published) >= 2 * (Len(wTaken) + 1) \/ rPc = "done"

WriterRecvPaced == WriterPaced /\ WriterRecv

WriterNextPaced == WriterRecvPaced \/ WriterCheck \/ WriterDrain \/ WriterExit

NextSlowWriter ==
    \/ ReaderHead
    \/ ReadTextLine
    \/ ReadBinaryRecord
    \/ ReaderSendData
    \/ ReaderSendStats
    \/ ReaderCount
    \/ WriterRecvPaced
    \/ WriterCheck
    \/ WriterDrain
    \/ WriterExit
    \/ StatsRecv
    \/ StatsCheck
    \/ StatsDrain
    \/ SupPoll

SpecSlowWriter ==
    /\ InitSlowWriter
    /\ [][NextSlowWriter]_vars
    /\ WF_vars(ReaderNext)
    /\ WF_vars(WriterNextPaced)
    /\ WF_vars(StatsNext)
    /\ WF_vars(SupPoll)

PipelineFinished ==
    /\ rPc = "done" /\ rRes = "ok"
    /\ wPc = "done" /\ wRes = "ok"
    /\ rPos = Len(source) \/ should_exit

\* C3: with a data channel of capacity one and a reader twice as fast as the
\* writer, the reader can always take its next step while it has not returned,
\* a batch is eventually dropped, and after the drop the reader and the writer
\* still run to completion.
C3_DropWithoutDeadlock ==
    /\ []((ProcessAlive /\ rPc # "done") => ENABLED ReaderNext)
    /\ <>(dataDrops # << >>)
    /\ (dataDrops # << >>) ~> PipelineFinished

\* C3 witness: at capacity one a batch was dropped and a later batch was still
\* read, queued and written.
C3_Witness ==
    /\ buffer_size = 1
    /\ dataDrops # << >>
    /\ \E i \in 1..Len(out) : out[i] > dataDrops[1]


\* ------------------------------------------------ clean completion (C11)
AllStagesOk ==
    /\ rPc = "done" /\ rRes = "ok"
    /\ wPc = "done" /\ wRes = "ok"
    /\ StatsEnabled => (sPc = "done" /\ sRes = "ok")

\* C11: once the reader has returned Ok (count reached, end of input), under
\* fair scheduling the writer and statistics return Ok too and the supervisor,
\* having joined every thread, returns Ok; in every writer mode, with and
\* without statistics.
C11_CleanCompletion ==
    (rPc = "done" /\ rRes = "ok") ~> (supPc = "ok" /\ AllStagesOk /\ all_threads = << >>)

\* C11 witness: a run with statistics and no interrupt in which the reader
\* stopped at the count gate and the supervisor returned Ok.
C11_Witness ==
    /\ supPc = "ok" /\ AllStagesOk /\ ~interrupted
    /\ StatsEnabled /\ max_count > 0 /\ packet_count = max_count


\* ------------------------------------------------ framing of files (C16..)
\* A file is replayed into a file: no statistics, no count limit, no interrupt.
\* The bytes of the packets: a newline, a letter, a byte that is not UTF-8.
Bytes == {NL, 97, 255}
Packets == UNION {[1..n -> Bytes] : n \in 0..MaxPktLen}
PacketSeqs == SeqsUpTo(Packets, MaxPkts)
BigPacket == [i \in 1..MAX_PACKET_SIZE |-> 0]

Prefixes(f) == {SubSeq(f, 1, k) : k \in 0..Len(f)}

\* Files the binary writer wrote, every truncation of one, and records whose
\* length field is MAX_PACKET_SIZE or one more
BinaryFiles ==
    UNION {Prefixes(write_binary_mode(p)) : p \in PacketSeqs}
    \cup {write_binary_mode(<<BigPacket>>)}
    \cup {write_binary_mode(p) \o to_le_bytes(n) :
            p \in SeqsUpTo(Packets, 1), n \in {MAX_PACKET_SIZE, MAX_PACKET_SIZE + 1}}

\* Files the text writer wrote
TextFiles == {write_text_mode(p) : p \in PacketSeqs}

InitFrames ==
    \E a \in ArgSet :
        /\ a.input = "some" /\ a.output = "some"
        /\ ~a.stats /\ a.count = 0 /\ a.buffer_size = MaxBuf
        /\ \E f \in (IF a.packet_type = "Text" THEN TextFiles ELSE BinaryFiles) :
             LET n == Len(ReadAll(a.packet_type = "Text", f)) - 1
             IN  InitRun(a, [i \in 1..n |-> 1], f, TRUE)

NextFrames ==
    \/ ReaderHead
    \/ ReadTextLine
    \/ ReadBinaryRecord
    \/ ReaderSendData
    \/ ReaderCount
    \/ WriterRecv
    \/ WriterCheck
    \/ WriterDrain
    \/ WriterExit
    \/ SupPoll

SpecFrames == InitFrames /\ [][NextFrames]_vars


\* ------------------------------------------- supervisor and errors (C12..)
\* C12: in the state in which the supervisor returns a stage's error,
\* should_exit is true (signal_exit was called).
C12_ErrorSignalsExit == supPc = "err" => should_exit

\* C13: once the supervisor has joined a thread that returned Ok, should_exit
\* is true, and it stays true.
C13_JoinSignalsExit ==
    /\ [](Len(all_threads) < Len(Threads(args)) => should_exit)
    /\ [][should_exit => should_exit']_vars

\* C13 witness: only the supervisor has asked for the exit: the reader reached
\* the end of its input and was joined while the writer is still running.
C13_Witness ==
    /\ ~interrupted /\ max_count = 0
    /\ rPc = "done" /\ all_threads = <<"writer">> /\ wPc # "done"
    /\ should_exit

\* The reader is past the publish step of its current iteration.
PastPublish == rPc \in {"send_stats", "count", "head", "done"}

\* C14: with should_exit true, a reader that is past its publish step, at the
\* loop head included, publishes nothing any more, and a batch published with
\* should_exit true leaves the reader past its publish step: at most the batch
\* of the iteration in progress follows the flag.
C14_AtMostOneMoreBatch ==
    /\ [][(should_exit /\ PastPublish) =>
              (PastPublish' /\ published' = published
                 /\ dataEnq' = dataEnq /\ statsEnq' \in {statsEnq, statsEnq \o rBatch})]_vars
    /\ [][(should_exit /\ published' # published) =>
              (rPc = "send_data" /\ PastPublish' /\ published' = published \o rBatch)]_vars

\* C14 witness: the interrupt came while the reader was in its read. The writer
\* observed the flag and its drain found the channel empty; the reader then
\* published the batch of its iteration and returned at the next loop head.
C14_Witness ==
    /\ interrupted /\ max_count = 0
    /\ wPc = "ret" /\ dataCh = <<rBatch>>
    /\ rPc = "done" /\ rRes = "ok"
    /\ Len(published) < Len(source)


\* ------------------------------------------------- text count gate (C15)
TextCountRun ==
    /\ ReaderMode = "text" /\ WriterMode = "text"
    /\ max_count > 0 /\ Len(source) > max_count /\ buffer_size >= max_count
    /\ ~interrupted

\* The bytes of the first n lines of the input file
FirstLines(n) == SubSeq(file, 1, Len(file) - Len(Unread(TRUE, file, n)))

\* C15: text framing, count M > 0, more than M lines in the source, a channel
\* of capacity M or more, a file or stdout writer: the writer never writes
\* anything but the first lines in order, no stage fails, and when the
\* supervisor has returned it returned Ok and the output is exactly the first
\* M lines.
C15_TextCountGate ==
    TextCountRun =>
        /\ out = Range(1, Len(out)) /\ Len(out) <= max_count
        /\ NoStageError /\ supPc # "err"
        /\ SupReturned =>
             /\ out = Range(1, max_count)
             /\ write_text_mode(Content(out)) = FirstLines(max_count)

\* C15 witness: a finished run with M = 2 of 3 lines, the second of which the
\* writer wrote in its shutdown drain.
C15_Witness ==
    /\ TextCountRun /\ max_count = 2 /\ Len(source) = 3
    /\ supPc = "ok" /\ out = <<1, 2>> /\ wDrained = <<2>>


\* ------------------------------------------------ binary round trip (C16)
\* C16: the binary reader publishes one packet per batch, and when it has
\* returned from a file that the binary writer wrote from the packets p (each
\* at most MAX_PACKET_SIZE bytes, empty ones included), it returned Ok, the
\* packets it published are p byte for byte and in order, and packet_count is
\* the number of packets.
C16_BinaryRoundTrip ==
    ReaderMode = "binary" =>
        /\ Len(rBatch) <= 1
        /\ \A i \in 1..Len(dataCh) : Len(dataCh[i]) = 1
        /\ rPc = "done" =>
             \A p \in PacketSeqs \cup {<<BigPacket>>} :
                 file = write_binary_mode(p) =>
                     /\ rRes = "ok"
                     /\ Content(published) = p
                     /\ packet_count = Len(p)

\* C16 witness: the reader has returned from a file written from an empty
\* packet followed by a packet of two bytes.
C16_Witness ==
    /\ ReaderMode = "binary" /\ rPc = "done" /\ rRes = "ok"
    /\ file = write_binary_mode(<<<< >>, <<255, NL>>>>)
    /\ Content(published) = <<<< >>, <<255, NL>>>>
    /\ packet_count = 2


\* -------------------------------------------------- text round trip (C17)
\* What the round trip is to yield: every packet, with a newline appended to
\* the packets that lacked one
WithNewlines(p) ==
    [i \in 1..Len(p) |-> IF ends_with_nl(p[i]) THEN p[i] ELSE Append(p[i], NL)]

\* A packet the text framing can carry: valid UTF-8, and no newline before
\* its last byte
IsLine(packet) ==
    /\ valid_utf8(packet)
    /\ \A i \in 1..(Len(packet) - 1) : packet[i] # NL

\* C17: when the text reader has returned from a file that the text writer
\* wrote from the packets p, it returned Ok and published Len(p) packets, the
\* i-th equal to p[i] with a newline appended if it lacked one.
C17_TextRoundTrip ==
    (ReaderMode = "text" /\ rPc = "done") =>
        \A p \in PacketSeqs :
            file = write_text_mode(p) =>
                (rRes = "ok" /\ Content(published) = WithNewlines(p))

\* C17, amended: the same, for packets that are valid UTF-8 and hold no
\* newline before their last byte.
C17_TextRoundTripOfLines ==
    (ReaderMode = "text" /\ rPc = "done") =>
        \A p \in PacketSeqs :
            (file = write_text_mode(p) /\ \A i \in 1..Len(p) : IsLine(p[i])) =>
                (rRes = "ok" /\ Content(published) = WithNewlines(p))

\* C17 witness: the reader has returned from a file written from a packet
\* without a newline and a packet with one, and published one line for each.
C17_Witness ==
    /\ ReaderMode = "text" /\ rPc = "done" /\ rRes = "ok"
    /\ file = write_text_mode(<<<<97>>, <<97, NL>>>>)
    /\ Content(published) = <<<<97, NL>>, <<97, NL>>>>


\* ------------------------------------------- binary reader errors (C18..)
\* The bytes in front of the binary reader, and the record they begin with
UnreadBytes == Unread(FALSE, file, rPos)
HasPrefix == Len(UnreadBytes) >= 4
PrefixLength == from_le_bytes(SubSeq(UnreadBytes, 1, 4))

\* C18: when the binary reader has returned in front of a length prefix
\* greater than MAX_PACKET_SIZE it returned a Critical error, the record was
\* neither published nor counted, and the supervisor does not return Ok; a
\* length of MAX_PACKET_SIZE or less never makes it return a Critical error,
\* and it never returns in front of a complete record of such a length (it
\* accepts it).
C18_OversizeFrame ==
    (ReaderMode = "binary" /\ rPc = "done" /\ HasPrefix) =>
        /\ PrefixLength > MAX_PACKET_SIZE =>
             /\ rRes = "critical"
             /\ Len(published) = rPos /\ packet_count = rPos
             /\ Len(dataEnq) + Len(dataDrops) = rPos
             /\ supPc # "ok"
        /\ PrefixLength <= MAX_PACKET_SIZE =>
             /\ rRes # "critical"
             /\ Len(UnreadBytes) - 4 < PrefixLength

\* C18 witness: after one good record the reader met a length of 65,537; the
\* supervisor has returned the error.
C18_Witness ==
    /\ ReaderMode = "binary"
    /\ file = write_binary_mode(<<<<97>>>>) \o to_le_bytes(MAX_PACKET_SIZE + 1)
    /\ rPc = "done" /\ rRes = "critical" /\ rPos = 1
    /\ packet_count = 1 /\ Content(published) = <<<<97>>>>
    /\ supPc = "err"

\* C19: the binary reader returns Ok exactly when the input ended at a record
\* boundary (nothing is left unread), and an error when it ended inside a
\* record.
C19_BinaryEof ==
    (ReaderMode = "binary" /\ rPc = "done") =>
        (rRes = "ok" <=> UnreadBytes = << >>)


\* --------------------------------------------------- input dispatch (C20)
\* The values of --input: absent, "-", "=", a path
InputArgs == {"none", "-", "=", "data"}

InitDispatch ==
    \E a \in ArgSet : \E i \in InputArgs : \E src \in SourceSet(a) :
        /\ ~a.stats /\ a.rate = "none" /\ a.count = 1 /\ a.buffer_size = 1
        /\ (a.input = "none") = (i = "none")
        /\ a.input = "some" => Len(src) = MaxSrc
        /\ InitState([a EXCEPT !.input = i], src, FileOf(a, src), TRUE,
                     "open", "unopened")

NextDispatch ==
    \/ ReaderOpen
    \/ ReaderHead
    \/ ReadFromNetwork
    \/ ReadTextLine
    \/ ReadBinaryRecord
    \/ ReaderSendData
    \/ ReaderCount
    \/ WriterRecv
    \/ WriterCheck
    \/ WriterDrain
    \/ WriterExit
    \/ WriterDevnull
    \/ WriterSendmmsg
    \/ SupPoll

SpecDispatch == InitDispatch /\ [][NextDispatch]_vars

\* C20: once run_reader has matched the input argument, the reader reads the
\* network when there is no input argument, standard input when the argument
\* is "-", and the file at the path otherwise.
C20_InputDispatch ==
    rInput # "unopened" =>
        rInput = (IF args.input = "none" THEN "network"
                  ELSE IF args.input = "-" THEN "stdin"
                  ELSE "file")

\* ----------------------------------------------------- the shared atomics
\* C21: should_exit starts false; once it is true no step of the handler, a
\* stage or the supervisor makes it false again; and signal_exit() on a flag
\* that is already true leaves it as it is.
C21_ExitOneShot ==
    /\ ~should_exit
    /\ [][should_exit => should_exit']_vars
    /\ [](should_exit => signal_exit(should_exit) = should_exit)

\* The flag is set, and both the ctrl-c handler and the supervisor's join loop
\* have called signal_exit(): the later call found the flag already true.
C21_Witness ==
    /\ should_exit
    /\ interrupted
    /\ Len(all_threads) < Len(Threads(args))

\* C22: packet_count starts at 0 and never decreases; it changes only in the
\* reader's count step, where add_count(n) adds the batch length n to it, and
\* the value add_count returns, which decides the max-count gate, is the
\* count after the addition.
C22_CountMonotone ==
    /\ packet_count = 0
    /\ [][packet_count' >= packet_count]_vars
    /\ [][packet_count' # packet_count
            => /\ rPc = "count" /\ rPc' # rPc
               /\ packet_count' = packet_count + Len(rBatch)
               /\ UNCHANGED <<writerVars, statVars, supVars>>]_vars
    /\ [][(rPc = "count" /\ rPc' # rPc)
            => /\ packet_count' = packet_count + Len(rBatch)
               /\ rPc' = "done" <=>
                    (max_count > 0 /\ packet_count + Len(rBatch) >= max_count)]_vars

\* The count was advanced twice by one packet, the second addition closing a
\* max-count gate of 2 with no interrupt involved.
C22_Witness ==
    /\ packet_count = 2 /\ max_count = 2
    /\ Len(published) = 2 /\ Len(rBatch) = 1
    /\ rPc = "done" /\ rRes = "ok" /\ ~interrupted

\* --------------------------------- the network reader's slab, byte by byte
\* The datagrams a socket may deliver: up to SlabBytes bytes each, empty
\* datagrams included
Datagrams == SeqsUpTo({1, 2}, SlabBytes)

\* Mutant of clone_packet: the batch holds the slab's slot itself.
share_packet(i, p) == [slot |-> i]

\* read_from_network, "Clone into channel": Packet::new(p.to_vec()) of the
\* packet p in slot i
clone_packet(i, p) == Packet_new(deref(p))

\* What a consumer reads from a batch element through Deref
view_of(e) == IF "slot" \in DOMAIN e THEN deref(slab[e.slot]) ELSE deref(e)

Observed(batch) == [i \in 1..Len(batch) |-> view_of(batch[i])]

\* read_from_network, the loop head: the should_exit check, the max-count
\* gate, then every slab packet's length is reset to the full capacity
SlabHead ==
    /\ nPc = "head"
    /\ IF should_exit
       THEN nPc' = "done" /\ UNCHANGED <<should_exit, slab>>
       ELSE IF max_count > 0 /\ packet_count >= max_count
       THEN nPc' = "done" /\ should_exit' = signal_exit(should_exit)
            /\ UNCHANGED slab
       ELSE /\ Len(slab_batches) < MaxBatches
            /\ slab' = [i \in 1..Len(slab) |-> set_length(slab[i], SlabBytes)]
            /\ nPc' = "recv"
            /\ UNCHANGED should_exit
    /\ UNCHANGED <<cfgVars, packetVars, gapVars, decVars, packet_count, dataCh, statsCh, readerVars,
                   writerVars, statVars, supVars, pubVars, interrupted,
                   slab_counts, slab_msgs, slab_batches>>

\* read_from_network, recvmmsg and the truncation: an error continues the
\* loop; otherwise k datagrams land in the first k slab buffers, and the
\* packets before the first empty datagram get the received length
SlabRecvmmsg ==
    /\ nPc = "recv"
    /\ \/ /\ slab_counts' = << >>
          /\ slab_msgs' = << >>
          /\ nPc' = "head"
          /\ UNCHANGED slab
       \/ \E k \in 1..Len(slab) : \E msgs \in [1..k -> Datagrams] :
            LET counts == [i \in 1..k |-> Len(msgs[i])]
                n == count_received(counts)
            IN  /\ slab_counts' = counts
                /\ slab_msgs' = msgs
                /\ slab' = [i \in 1..Len(slab) |->
                              IF i > k THEN slab[i]
                              ELSE IF i > n THEN recv_into(slab[i], msgs[i])
                              ELSE set_length(recv_into(slab[i], msgs[i]),
                                              counts[i])]
                /\ nPc' = IF n = 0 THEN "head" ELSE "clone"
    /\ UNCHANGED <<cfgVars, packetVars, gapVars, decVars, sharedVars, dataCh, statsCh, readerVars,
                   writerVars, statVars, supVars, pubVars, interrupted,
                   slab_batches>>

\* read_from_network, from "Make sure we only send up to max packets" to the
\* end of the loop body: the first send_count packets are cloned into a batch,
\* the batch is handed to the channels, and the count gate is applied
SlabPublish ==
    /\ nPc = "clone"
    /\ LET m == send_count(count_received(slab_counts), packet_count)
           batch == [i \in 1..m |-> clone_packet(i, slab[i])]
           already_sent == add_count(packet_count, Len(batch))
       IN  /\ slab_batches' = Append(slab_batches, batch)
           /\ packet_count' = already_sent
           /\ IF max_count > 0 /\ already_sent >= max_count
              THEN should_exit' = signal_exit(should_exit) /\ nPc' = "done"
              ELSE nPc' = "head" /\ UNCHANGED should_exit
    /\ UNCHANGED <<cfgVars, packetVars, gapVars, decVars, dataCh, statsCh, readerVars, writerVars, statVars,
                   supVars, pubVars, interrupted, slab, slab_counts,
                   slab_msgs>>

InitSlab ==
    \E a \in ArgSet :
        /\ a.input = "none" /\ a.output = "none"
        /\ ~a.stats /\ a.buffer_size = 1
        /\ InitWith(a, [i \in 1..MaxSrc |-> 1], FALSE)

NextSlab ==
    \/ SlabHead
    \/ SlabRecvmmsg
    \/ SlabPublish
    \/ Interrupt

SpecSlab == InitSlab /\ [][NextSlab]_vars

\* C23: no step changes what a consumer reads from any batch that has been
\* published, in particular not the reader's length reset and the next
\* recvmmsg into the slab; and a published batch keeps its place.
C23_BatchesImmutable ==
    [][\A j \in 1..Len(slab_batches) :
          /\ j <= Len(slab_batches')
          /\ Observed(slab_batches[j])' = Observed(slab_batches[j])]_vars

\* C23 witness: after a batch was published the slab was reset and refilled,
\* and its first slot now reads differently from the batch's first packet.
C23_Witness ==
    /\ nPc = "clone"
    /\ Len(slab_batches) >= 1
    /\ view_of(slab_batches[1][1]) # deref(slab[1])

\* ------------------------------------------------- one Packet and its view
PacketData == SeqsUpTo({1, 2, 3}, MaxPktLen)

OthersUnchanged ==
    UNCHANGED <<cfgVars, sharedVars, dataCh, statsCh, readerVars, writerVars,
                statVars, supVars, pubVars, interrupted>>

\* Packet::new(data)
PacketNew ==
    /\ \E data \in PacketData : pkt' = Packet_new(data)
    /\ pkt_view' = << >>
    /\ OthersUnchanged /\ UNCHANGED <<slabVars, gapVars, decVars>>

\* Packet::with_capacity(capacity)
PacketWithCapacity ==
    /\ \E capacity \in 0..MaxPktLen : pkt' = with_capacity(capacity)
    /\ pkt_view' = << >>
    /\ OthersUnchanged /\ UNCHANGED <<slabVars, gapVars, decVars>>

\* p.set_length(length), with any length up to past the largest capacity
PacketSetLength ==
    /\ \E length \in 0..(MaxPktLen + 1) : pkt' = set_length(pkt, length)
    /\ pkt_view' = << >>
    /\ OthersUnchanged /\ UNCHANGED <<slabVars, gapVars, decVars>>

\* &*p
PacketDeref ==
    /\ pkt_view' = <<deref(pkt)>>
    /\ UNCHANGED pkt
    /\ OthersUnchanged /\ UNCHANGED <<slabVars, gapVars, decVars>>

InitPacket ==
    \E a \in ArgSet :
        /\ a.input = "none" /\ a.output = "none"
        /\ ~a.stats /\ a.buffer_size = 1 /\ a.count = 0
        /\ InitWith(a, [i \in 1..MaxSrc |-> 1], FALSE)

NextPacket ==
    \/ PacketNew
    \/ PacketWithCapacity
    \/ PacketSetLength
    \/ PacketDeref

SpecPacket == InitPacket /\ [][NextPacket]_vars

\* C24: whatever length was stored with set_length, the view of a Packet has
\* min(length, capacity) bytes and they are the first bytes of its buffer;
\* reading the view is possible in every state, also when the length is
\* larger than the capacity.
C24_PacketView ==
    /\ [](pkt_view # << >> =>
            /\ Len(pkt_view[1]) = Min(pkt.length, Len(pkt.data))
            /\ \A i \in 1..Len(pkt_view[1]) : pkt_view[1][i] = pkt.data[i])
    /\ [](ENABLED PacketDeref)

\* C24 witness: the view of a packet whose stored length is larger than its
\* non-empty buffer has been read, and is the whole buffer.
C24_Witness ==
    /\ pkt.length > Len(pkt.data) /\ Len(pkt.data) = MaxPktLen
    /\ pkt_view = <<pkt.data>>

\* ----------------------------- statistics on SDDS packets, one report window
\* An SDDS packet cut after the sequence number field
sdds_packet(seq) == <<0, 0, seq \div 256, seq % 256>>

SddsSeqs == {0, 1, 2, 3, 5, 31, 32, 33, 34, 65534, 65535}

\* The packets statistics may be handed: the sequence numbers above, and a
\* packet too short for the sequence number field
SddsPackets == {sdds_packet(seq) : seq \in SddsSeqs} \cup {<<0, 0, 1>>}

\* produce_stats, `for packet in batch.iter()`: packet_count += 1 and
\* process_packet
SddsPacket ==
    /\ st_count < MaxWindow
    /\ \E packet \in SddsPackets :
         /\ sdds_state' = sdds_process(packet, sdds_state)
         /\ st_log' = Append(st_log, frame_sequence_number(packet))
    /\ st_count' = st_count + 1
    /\ OthersUnchanged /\ UNCHANGED <<slabVars, packetVars, decVars, vita_state>>

\* produce_stats, the report tick: packet_count = 0; state = S::default()
SddsReport ==
    /\ sdds_state' = SddsDefault
    /\ st_count' = 0
    /\ st_log' = << >>
    /\ OthersUnchanged /\ UNCHANGED <<slabVars, packetVars, decVars, vita_state>>

NextSdds ==
    \/ SddsPacket
    \/ SddsReport

SpecSdds == InitPacket /\ [][NextSdds]_vars

PacketProcessed == Len(st_log') = Len(st_log) + 1

\* C25: a packet whose sequence number seq is a multiple of 32 only sets
\* last_seq = seq; any other packet, when a last_seq is remembered, adds
\* (seq - (last_seq + 1)) mod 65536 to skipped_in_period, and sets
\* last_seq = seq. The window 1,2,3,5 ends with skipped = 1, the window
\* 31,32,33 with skipped = 0.
C25_SddsGaps ==
    /\ [][PacketProcessed =>
            LET seq == st_log'[Len(st_log')]
                gap == IF seq % 32 = 0 \/ sdds_state.last_seq = << >> THEN 0
                       ELSE (seq - (sdds_state.last_seq[1] + 1)) % 65536
            IN  /\ sdds_state'.last_seq = <<seq>>
                /\ sdds_state'.skipped_in_period =
                       sdds_state.skipped_in_period + gap]_vars
    /\ [](st_log = <<1, 2, 3, 5>> => sdds_state.skipped_in_period = 1)
    /\ [](st_log = <<31, 32, 33>> => sdds_state.skipped_in_period = 0)

\* C25 witness: a window with a gap of one across the wrap (65535, then 1), a
\* parity packet (32) and a gap of one after it (34).
C25_Witness ==
    /\ st_log = <<65535, 1, 32, 34>>
    /\ sdds_state.skipped_in_period = 2
    /\ sdds_state.last_seq = <<34>>

\* --------------------------- statistics on VITA49 packets, one report window
\* A VRLP packet with the frame sequence number seq and frame size 8
vita49_packet(seq) == VRLP \o <<seq \div 16, (seq % 16) * 16, 0, 8>>

VitaSeqs == {0, 1, 2, 5, 32, 2047, 4094, 4095}

\* The packets statistics may be handed: the sequence numbers above, and a
\* packet that does not start with "VRLP"
VitaPackets == {vita49_packet(seq) : seq \in VitaSeqs} \cup {<<0, 0, 0, 0, 0, 48, 0, 8>>}

\* produce_stats, `for packet in batch.iter()`: packet_count += 1 and
\* process_packet
VitaPacket ==
    /\ st_count < MaxWindow
    /\ \E packet \in VitaPackets :
         /\ vita_state' = vita49_process(packet, vita_state)
         /\ st_log' = Append(st_log, parse_header(packet).frame_sequence_number)
    /\ st_count' = st_count + 1
    /\ OthersUnchanged /\ UNCHANGED <<slabVars, packetVars, decVars, sdds_state>>

\* produce_stats, the report tick: packet_count = 0; state = S::default()
VitaReport ==
    /\ vita_state' = Vita49Default
    /\ st_count' = 0
    /\ st_log' = << >>
    /\ OthersUnchanged /\ UNCHANGED <<slabVars, packetVars, decVars, sdds_state>>

NextVita ==
    \/ VitaPacket
    \/ VitaReport

SpecVita == InitPacket /\ [][NextVita]_vars

\* C26: processing the 12-bit sequence number seq when last_seq is remembered
\* adds (seq - (last_seq + 1)) mod 0x1000 to skipped_in_period, for a multiple
\* of 32 as for any other number, and then last_seq = seq.
C26_VitaGaps ==
    [][PacketProcessed =>
         LET seq == st_log'[Len(st_log')]
             gap == IF vita_state.last_seq = << >> THEN 0
                    ELSE (seq - (vita_state.last_seq[1] + 1)) % 4096
         IN  /\ seq \in 0..4095
             /\ vita_state'.last_seq = <<seq>>
             /\ vita_state'.skipped_in_period =
                    vita_state.skipped_in_period + gap]_vars

\* C26 witness: a window that wraps in sequence (4095, then 0), loses one
\* number before 2, and loses 29 numbers before 32.
C26_Witness ==
    /\ st_log = <<4095, 0, 2, 32>>
    /\ vita_state.skipped_in_period = 30
    /\ vita_state.last_seq = <<32>>

\* ------------------------------------------------------ the header decoders
VitaBytes == {0, 15, 18, 52, 86, 120, 240, 255}

\* The scenario packet 56 52 4C 50 12 34 56 78
ScenarioPacket == VRLP \o <<18, 52, 86, 120>>

\* VRLP packets over the sample bytes, and one with a payload after the header
VitaInputs ==
    {VRLP \o w : w \in [1..4 -> VitaBytes]} \cup {ScenarioPacket \o <<1, 2>>}

\* Every strict prefix of a byte string, the empty one included
StrictPrefixes(p) == {SubSeq(p, 1, n) : n \in 0..(Len(p) - 1)}

\* Time tags: the extreme bytes in every position, 3, one second, one day less
\* one unit, one day
TimeTagBytes ==
    [1..8 -> {0, 255}] \cup
    { <<0, 0, 0, 0, 0, 0, 0, 3>>, <<0, 0, 0, 0, 238, 107, 40, 0>>,
      <<0, 1, 58, 82, 69, 59, 255, 255>>, <<0, 1, 58, 82, 69, 60, 0, 0>> }

sdds_header(seq_bytes, tag_bytes) == <<1, 2>> \o seq_bytes \o <<3, 4, 5, 6>> \o tag_bytes

SddsInputs ==
    {sdds_header(sq, tg) : sq \in {<<0, 0>>, <<18, 52>>, <<255, 255>>},
                           tg \in TimeTagBytes}

\* Packets too short for a field, and packets with another identifier
OddInputs ==
    StrictPrefixes(ScenarioPacket)
    \cup StrictPrefixes(sdds_header(<<18, 52>>, <<0, 1, 58, 82, 69, 60, 0, 0>>))
    \cup { <<86, 82, 76, 81, 18, 52, 86, 120>>, <<118, 82, 76, 80, 18, 52, 86, 120>> }

DecodeInputs == VitaInputs \cup SddsInputs \cup OddInputs

DecodeFrame ==
    /\ UNCHANGED dec_in
    /\ OthersUnchanged /\ UNCHANGED <<slabVars, packetVars, gapVars>>

\* vita49::parse_header(packet)
DecodeVita ==
    /\ dec_out' = <<"parse_header", parse_header(dec_in)>>
    /\ DecodeFrame

\* sdds::frame_sequence_number(packet)
DecodeSeq ==
    /\ dec_out' = <<"frame_sequence_number", frame_sequence_number(dec_in)>>
    /\ DecodeFrame

\* sdds::time_tag(packet)
DecodeTimeTag ==
    /\ dec_out' = <<"time_tag", time_tag(dec_in)>>
    /\ DecodeFrame

\* sdds::sddstime(sdds::time_tag(packet)), as format_timestamp's caller does
DecodeSddsTime ==
    /\ dec_out' = <<"sddstime", sddstime(time_tag(dec_in))>>
    /\ DecodeFrame

InitDecode ==
    /\ InitCore([input |-> "none", output |-> "none", packet_type |-> "Text",
                 rate |-> "none", stats |-> FALSE, count |-> 0, buffer_size |-> 1],
                [i \in 1..MaxSrc |-> 1], << >>, FALSE, "head", "network")
    /\ SlabInit
    /\ PacketInit
    /\ GapInit
    /\ dec_in \in DecodeInputs
    /\ dec_out = << >>

NextDecode ==
    \/ DecodeVita
    \/ DecodeSeq
    \/ DecodeTimeTag
    \/ DecodeSddsTime

SpecDecode == InitDecode /\ [][NextDecode]_vars

Called(decoder) == dec_out # << >> /\ dec_out[1] = decoder

IsVrlp(packet) == Len(packet) >= 8 /\ SubSeq(packet, 1, 4) = VRLP

C29_DecodersTotal ==
    /\ (Called("parse_header") /\ ~IsVrlp(dec_in)) =>
           dec_out[2] = Vita49Header(0, 0)
    /\ Called("frame_sequence_number") =>
           dec_out[2] = IF Len(dec_in) < 4 THEN 0
                        ELSE 256 * dec_in[3] + dec_in[4]
    /\ Called("time_tag") =>
           dec_out[2] = IF Len(dec_in) < 16 THEN << >>
                        ELSE big_from_be_bytes(SubSeq(dec_in, 9, 16))
    /\ Called("parse_header") =>
           /\ dec_out[2].frame_sequence_number \in 0..65535
           /\ dec_out[2].frame_size \in 0..1048575
    /\ Called("frame_sequence_number") => dec_out[2] \in 0..65535
    /\ Called("time_tag") =>
           /\ Len(dec_out[2]) <= 7
           /\ \A i \in 1..Len(dec_out[2]) : dec_out[2][i] \in 0..999

\* C29 witness: a full header with the identifier "VRLQ" has been decoded to
\* zeros.
C29_Witness ==
    /\ dec_in = <<86, 82, 76, 81, 18, 52, 86, 120>>
    /\ dec_out = <<"parse_header", Vita49Header(0, 0)>>

\* The time tag with the fields t = (days, hours, mins, secs, nsecs), in units
\* of a quarter nanosecond
FromFields(t) ==
    LET d == big_mul_add(<< >>, 1, t[1] - 1)
        h == big_mul_add(d, 24, t[2])
        m == big_mul_add(h, 60, t[3])
        s == big_mul_add(m, 60, t[4])
        n == big_mul_add(big_mul_add(big_mul_add(s, 1000, t[5] \div 1000000),
                                     1000, (t[5] \div 1000) % 1000),
                         1000, t[5] % 1000)
    IN  big_mul_add(n, 4, 0)

OneDay == <<0, 0, 0, 600, 345>>

\* C30: sddstime(0) = (1,0,0,0,0); sddstime(4,000,000,000 * 86,400) =
\* (2,0,0,0,0); and for every time tag the result has days >= 1, hours < 24,
\* mins < 60, secs < 60, nsecs < 1,000,000,000 and is the tag's count of
\* whole days (plus one), hours, minutes, seconds at 4,000,000,000 units per
\* second, and nanoseconds at 4 units each.
C30_SddsTime ==
    Called("sddstime") =>
        LET tt == time_tag(dec_in)
            t == dec_out[2]
        IN  /\ t[1] >= 1 /\ t[2] \in 0..23 /\ t[3] \in 0..59 /\ t[4] \in 0..59
            /\ t[5] \in 0..999999999
            /\ big_mul_add(big_div(FromFields(t), 4), 4, big_rem(tt, 4)) = tt
            /\ tt = << >> => t = <<1, 0, 0, 0, 0>>
            /\ tt = OneDay => t = <<2, 0, 0, 0, 0>>

\* C30 witness: the tag one unit before the end of the first day has been
\* decoded.
C30_Witness ==
    /\ Len(dec_in) = 16
    /\ SubSeq(dec_in, 9, 16) = <<0, 1, 58, 82, 69, 59, 255, 255>>
    /\ dec_out = <<"sddstime", <<1, 23, 59, 59, 999999999>>>>

\* -------------------------------------------- batch composition (C31)
\* The number of leading datagrams of a recvmmsg that are not empty
LeadingRun(msgs) ==
    Cardinality({i \in 1..Len(msgs) : \A j \in 1..i : Len(msgs[j]) > 0})

\* How many of them the max-count gate lets through
Allowed(msgs) ==
    IF max_count > 0 THEN Min(LeadingRun(msgs), max_count - packet_count)
    ELSE LeadingRun(msgs)

\* C31: the batch the network reader publishes in an iteration holds exactly
\* the datagrams of that iteration's recvmmsg before the first empty one, each
\* with the bytes it was received with, cut to max_count - packet_count
\* packets when max_count > 0, and the count grows by that number; when the
\* first datagram is empty the iteration publishes and counts nothing; batches
\* are published in no other step, so that the datagrams behind an empty one
\* are never published or counted.
C31_BatchComposition ==
    /\ [][(nPc = "clone" /\ nPc' # nPc)
            => /\ Len(slab_batches') = Len(slab_batches) + 1
               /\ SubSeq(slab_batches', 1, Len(slab_batches)) = slab_batches
               /\ Observed(slab_batches[Len(slab_batches)])' =
                      SubSeq(slab_msgs, 1, Allowed(slab_msgs))
               /\ Allowed(slab_msgs) >= 1
               /\ packet_count' = packet_count + Allowed(slab_msgs)]_vars
    /\ [][(nPc = "recv" /\ nPc' # nPc)
            => /\ slab_batches' = slab_batches
               /\ packet_count' = packet_count
               /\ nPc' = IF LeadingRun(slab_msgs') = 0 THEN "head" ELSE "clone"]_vars
    /\ [][(slab_batches' # slab_batches \/ packet_count' # packet_count)
            => nPc = "clone"]_vars

\* C31 witness: the second recvmmsg delivered <<1>>, <<2>> with max_count = 2
\* and one packet already counted, and the batch published from it holds only
\* <<1>>.
C31_Witness ==
    /\ max_count = 2 /\ packet_count = 2 /\ nPc = "done"
    /\ slab_msgs = << <<1>>, <<2>> >>
    /\ Len(slab_batches) = 2
    /\ Observed(slab_batches[2]) = << <<1>> >>

\* ------------------------------------------ the sendmmsg writer (C32)
\* A file of BATCH_SIZE + 2 packets sent to the network without --rate over a
\* channel that can queue more than BATCH_SIZE batches
InitSendmmsg ==
    \E t \in {"Text", "Binary"} :
        InitWith([input |-> "some", output |-> "none", packet_type |-> t,
                  rate |-> "none", stats |-> FALSE, count |-> 0,
                  buffer_size |-> BATCH_SIZE + 1],
                 [i \in 1..(BATCH_SIZE + 2) |-> 1], TRUE)

NextSendmmsg ==
    \/ ReaderHead
    \/ ReadTextLine
    \/ ReadBinaryRecord
    \/ ReaderSendData
    \/ ReaderCount
    \/ WriterSendmmsg
    \/ WriterExit
    \/ SupPoll
    \/ Interrupt

SpecSendmmsg == InitSendmmsg /\ [][NextSendmmsg]_vars

\* C32: on the sendmmsg path every batch on the data channel holds one
\* packet, and every packet of every batch the writer has taken off the
\* channel has been handed to sendmmsg exactly once and in channel order: a
\* round hands over all the packets of the batches it collected.
C32_SendmmsgHandsAll ==
    WriterMode = "sendmmsg" =>
        /\ \A i \in 1..Len(dataCh) : Len(dataCh[i]) = 1
        /\ out = wTaken
        /\ wTaken = SubSeq(dataEnq, 1, Len(wTaken))
        /\ \A i, j \in 1..Len(out) : out[i] = out[j] => i = j

\* C32 witness: the writer found BATCH_SIZE + 1 batches queued, collected
\* BATCH_SIZE of them in one round and handed their packets to sendmmsg; the
\* last batch is still on the channel.
C32_Witness ==
    /\ WriterMode = "sendmmsg"
    /\ Len(out) = BATCH_SIZE /\ Len(dataCh) = 1
    /\ Len(dataEnq) = BATCH_SIZE + 1
    /\ dataDrops = << >>

\* ------------------------------------- shutdown and disconnection (C33)
\* The reader returned out of a publish step: write_batch_to_channel found
\* the receiver of the data channel, or of the stats channel, dropped. The
\* batch of that iteration was passed to the publish step and was neither
\* accepted nor refused by the channel.
DataDisconnected ==
    rPc = "done" /\ Len(published) # Len(dataEnq) + Len(dataDrops)
StatsDisconnected ==
    /\ rPc = "done" /\ StatsEnabled
    /\ Len(published) = Len(dataEnq) + Len(dataDrops)
    /\ Len(published) # Len(statsEnq) + Len(statsDrops)

\* C33: as long as no read has failed, the reader has not found the data or
\* the stats channel disconnected and no stage has returned an error, the
\* interrupt included.
C33_ShutdownWithoutError ==
    rRes # "err" =>
        /\ ~DataDisconnected /\ ~StatsDisconnected
        /\ rRes # "critical" /\ ~Failed(wRes) /\ ~Failed(sRes)

\* ------------------------------------ what packet_count counts (C34)
\* The packets the reader has handed to the data channel: accepted or refused
Attempts == Len(dataEnq) + Len(dataDrops)

\* The batch of the current iteration has been handed to the data channel and
\* add_count has not run yet (for a reader that returned: will never run).
CountPending == rPc \in {"send_stats", "count"} \/ StatsDisconnected

\* The packets the writer has received
Received == Len(wTaken)

\* C34 as stated: at every moment packet_count is the number of packets
\* enqueued on the data channel plus the number dropped there.
C34_CountIsAttemptsAlways == packet_count = Attempts

\* C34, amended: packet_count counts publish attempts, deliveries or not. It
\* equals enqueued + dropped whenever the reader is not between the data
\* publish and add_count of one iteration, and is short of it by the length of
\* the batch in hand there. With max_count = M > 0 the attempts, and so the
\* packets the writer receives, never exceed M, and once the reader has stopped
\* at the count gate and the channel is empty the writer has received exactly
\* M minus the number dropped.
C34_CountIsAttempts ==
    /\ packet_count = IF CountPending THEN Attempts - Len(rBatch) ELSE Attempts
    /\ Received <= Len(dataEnq)
    /\ max_count > 0 =>
         /\ Attempts <= max_count
         /\ (rPc = "done" /\ packet_count >= max_count /\ dataCh = << >>) =>
                Received = max_count - Len(dataDrops)

\* C34 witness: max_count = 2, the second packet was refused by the full
\* channel and counted all the same; the reader stopped at the gate and the
\* writer received the one packet that was enqueued.
C34_Witness ==
    /\ max_count = 2 /\ packet_count = 2 /\ rPc = "done" /\ rRes = "ok"
    /\ Len(dataEnq) = 1 /\ Len(dataDrops) = 1
    /\ dataCh = << >> /\ Received = 1
    /\ ~interrupted

====
